---- MODULE Spec2Model ----
(***************************************************************************)
(* Cross-process coordination of ccusage-statusline-rs.                    *)
(*                                                                         *)
(* Spec       : the Remote Quota Cache (src/api_usage.rs).  Independent OS *)
(*              processes run fetch_usage against one cache path; the file *)
(*              system is modelled with inodes, because flock() locks an   *)
(*              inode while rename() rebinds the path to another inode.    *)
(* RenderSpec : the Render-Result Cache (src/cache.rs, main in main.rs).   *)
(* ScanSpec, BlockSpec : the usage-log scan and the 5-hour block aggregator  *)
(*              (src/blocks.rs).  CostSpec, ResolveSpec : the cost of one   *)
(*              entry (src/types.rs, src/pricing.rs).  LoadSpec : the       *)
(*              pricing table loader (src/pricing.rs).  FairSpec : the      *)
(*              quota fetch under fair scheduling.  LockSpec : the locks of *)
(*              both caches.  LookbackSpec : the scan with the 12-hour file *)
(*              lookback.  RenderFairSpec : the render cache under fair     *)
(*              scheduling, main started without bound.                     *)
(*                                                                         *)
(* File contents are sequences of chunks: write_all is a loop of write()   *)
(* calls, so a file can be seen with a prefix of a record.                 *)
(***************************************************************************)
EXTENDS Integers, Sequences, FiniteSets, TLC

\* ---------------------------------------------------------------- bounds
NProcs == 2
MaxInv == 3
MaxTicks == 1
ChunkCount == 2
NKeys == 2
MaxTouch == 1
MaxRoots == 2
MaxFiles == 2
MaxLines == 3
MaxSkipped == 1
MaxLoads == 3

\* ------------------------------------------------------ program constants
CACHE_TTL_SECS == 30
RENDER_TTL_SECS == 30
BLOCK_DURATION_HOURS == 5
FILE_LOOKBACK_HOURS == 12
THRESHOLD == 200000
MAX_AGE_SECONDS == 86400

Procs == 1..NProcs
\* live inodes: the two paths, and per process one open cache file and one open temp file
Inodes == 1..(2 + 2 * NProcs)
TickSteps == {CACHE_TTL_SECS - 1, CACHE_TTL_SECS}
InitNow == CACHE_TTL_SECS
MaxNow == InitNow + MaxTicks * CACHE_TTL_SECS

VARIABLES
    now,        \* wall clock, seconds
    pathIno,    \* inode bound to api-usage-cache.json (0: no such file)
    tmpIno,     \* inode bound to api-usage-cache.tmp  (0: no such file)
    inoData,    \* inode -> content, a sequence of chunks
    inoMtime,   \* inode -> modification time
    invs,       \* invocations started so far
    served,     \* responses the usage API has served so far
    lastDone,   \* <<snapshot, write time>> of the latest fetch-and-write whose invocation returned
    overlap,    \* TRUE while no invocation has started after another one returned
    renames,    \* fetch-and-write sequences completed so far (successful renames)
    readFault,  \* TRUE once a read of a fresh cache failed with an I/O error
    proc,       \* per process: state of its fetch_usage invocation
    rfile,      \* session key -> the render cache file <session>.lock: [exists, data]
    transcript, \* session key -> the watched transcript file: [mtime, ver]
    touches,    \* transcript modifications so far
    lastPut,    \* session key -> the record of the last update_cache that completed with
                \* no other update_cache on the key since it opened the file (else NoRec)
    puts,       \* session key -> the texts update_cache has been called with so far
    rproc,      \* per process: state of its render invocation (main)
    log_files,        \* the session files of the usage log: [mtime (s), lines]
    scan_now,         \* Utc::now() read by find_active_block before the scan, ms
    spc,              \* find_active_block: position of the directory scan
    roots_left,       \* claude_paths not visited yet
    skipped_entries,  \* directory entries passed over (no directory, no .jsonl, too old)
    file_no,          \* number of the usage-log file being read (0: none yet)
    scanned,          \* every line parsed as a UsageData so far, in scan order, with its fate
    processed_hashes, \* the set of dedup hashes inserted so far
    all_entries,      \* the entries collected for the aggregator
    skipped_lines,    \* lines met that are blank or no UsageData
    scan_fault,       \* which call made the scan fail ("" while none did)
    gi,                    \* group_into_blocks: number of entries the loop has taken
    current_block_start,   \* Option<DateTime<Utc>>, ms
    current_block_entries, \* the entries of the block being built
    blocks,                \* the blocks produced so far
    assigned,              \* for each produced block, the entries it was made from
    group_now,             \* Utc::now() read by group_into_blocks
    query_now,             \* Utc::now() read by find_active_block before the selection
    result,                \* Option<Block>: what find_active_block returned
    run,                   \* which run of the aggregator on all_entries this is
    prev_blocks,           \* the blocks the previous run produced
    models,                \* PricingFetcher.models: key -> ModelPricing
    iter_order,            \* the order in which this PricingFetcher's HashMap iterates
    cost_entry,            \* the entry whose cost is computed
    category_costs,        \* input, output, cache write and cache read cost of cost_entry
    entry_cost,            \* what calculate_entry_cost returned
    pricing_key,           \* Option: the table key get_model_pricing returned for cost_entry
    cpc,                   \* position of the cost computation
    pricing_json,          \* the file pricing.json: [exists, data], data a sequence of chunks
    unix_now,              \* Utc::now().timestamp(), seconds
    loads,                 \* load_pricing calls started so far
    remote_served,         \* pricing tables the remote source has served so far
    fetch_times,           \* the times at which the remote source served a table
    write_fault,           \* TRUE once a write of pricing.json failed
    lproc                  \* per process: state of its generate_statusline / load_pricing

qvars == <<now, pathIno, tmpIno, inoData, inoMtime, invs, served, lastDone, overlap,
          renames, readFault, proc>>

rvars == <<rfile, transcript, touches, lastPut, puts, rproc>>

svars == <<log_files, scan_now, spc, roots_left, skipped_entries, file_no, scanned, processed_hashes, all_entries,
          skipped_lines, scan_fault>>

bvars == <<gi, current_block_start, current_block_entries, blocks, assigned, group_now,
          query_now, result, run, prev_blocks>>

pvars == <<models, iter_order>>

cvars == <<cost_entry, category_costs, entry_cost, pricing_key, cpc>>

lvars == <<pricing_json, unix_now, loads, remote_served, fetch_times, write_fault, lproc>>

xvars == <<svars, bvars, pvars, cvars, lvars>>

vars == <<qvars, rvars, xvars>>

\* --------------------------------------------------------- file contents
\* a write past the end of a file leaves a hole of filler z before it
Pad(c, n, z) == IF Len(c) >= n THEN c ELSE c \o [i \in 1..(n - Len(c)) |-> z]

\* write() of one chunk v at chunk offset off of a file holding c
WriteAt(c, off, v, z) ==
    IF off < Len(c) THEN [c EXCEPT ![off + 1] = v] ELSE Pad(c, off, z) \o <<v>>

\* serde_json::from_str::<ApiResponse>: the snapshot a content encodes, 0 when it does not parse
Parse(c) ==
    IF Len(c) = ChunkCount /\ c[1] # 0 /\ \A i \in 1..Len(c) : c[i] = c[1] THEN c[1] ELSE 0

\* Ok(snapshot) is the snapshot (> 0); Err is -1 ("Cache file is empty", or a parse error)
read_cache_from_file(c) ==
    IF c = <<>> THEN -1 ELSE IF Parse(c) = 0 THEN -1 ELSE Parse(c)

\* mutant: the Err is handed on to the caller instead of becoming None
fetch_usage_propagate(r) == r

\* fetch_usage: Ok(data) => Some(data), Err(e) => None (0)
fetch_usage_result(r) == IF r > 0 THEN r ELSE 0

\* age < Duration::from_secs(CACHE_TTL_SECS)
IsFresh(mtime, t) == t - mtime < CACHE_TTL_SECS

\* ------------------------------------------------------------ flock state
ExHeldByOther(p) ==
    \E q \in Procs \ {p} : proc[q].fd = proc[p].fd /\ proc[q].held = "ex"

AnyHeldByOther(p) ==
    \E q \in Procs \ {p} : proc[q].fd = proc[p].fd /\ proc[q].held # "none"

ExHolder(p) ==
    IF ExHeldByOther(p)
    THEN CHOOSE q \in Procs \ {p} : proc[q].fd = proc[p].fd /\ proc[q].held = "ex"
    ELSE 0

InSection(p) == proc[p].pc \in {"net", "wopen", "wwrite", "rename"}

\* ----------------------------------------------------------------- inodes
\* an inode lives while a path or an open file refers to it
Live(i, pth, tmp, pr) ==
    \/ i = pth
    \/ i = tmp
    \/ \E q \in Procs : pr[q].fd = i \/ pr[q].wfd = i

NewIno == CHOOSE i \in Inodes :
    /\ ~Live(i, pathIno, tmpIno, proc)
    /\ \A j \in Inodes : j < i => Live(j, pathIno, tmpIno, proc)

\* the kernel frees the inodes nothing refers to any more
Reclaim(f, pth, tmp, pr, empty) ==
    [i \in Inodes |-> IF Live(i, pth, tmp, pr) THEN f[i] ELSE empty]

\* --------------------------------------------------------------- initial
\* res: 0 unset, > 0 Ok(snapshot), -1 Err of read_cache_from_file, -2 Err of a failed call
IdleProc ==
    [pc |-> "idle", fd |-> 0, held |-> "none", res |-> 0, out |-> 0,
     resp |-> 0, wfd |-> 0, woff |-> 0, wtime |-> 0, net |-> 0, wrote |-> 0,
     contended |-> FALSE, blocker |-> 0, expect |-> 0, why |-> "",
     basis |-> <<0, 0>>]

FullContent(s) == [i \in 1..ChunkCount |-> s]

\* the cache file at start: absent, holding a stale snapshot, or holding a fresh one;
\* snapshot 1 is the one the file holds at start, the k-th API response is snapshot k + 1
QuotaInit ==
    /\ now = InitNow
    /\ tmpIno = 0
    /\ invs = 0
    /\ served = 0
    /\ lastDone = <<0, 0>>
    /\ overlap = TRUE
    /\ readFault = FALSE
    /\ renames = 0
    /\ proc = [p \in Procs |-> IdleProc]
    /\ \E start \in {"absent", "stale", "fresh"} :
         /\ pathIno = IF start = "absent" THEN 0 ELSE 1
         /\ inoData = [i \in Inodes |->
                IF i = 1 /\ start # "absent" THEN FullContent(1) ELSE <<>>]
         /\ inoMtime = [i \in Inodes |->
                IF i = 1 /\ start = "fresh" THEN InitNow ELSE 0]

Set(p, r) == proc' = [proc EXCEPT ![p] = r]

\* --------------------------------------------------------------- actions
\* time passes
Tick ==
    /\ \E d \in TickSteps : now + d <= MaxNow /\ now' = now + d
    /\ UNCHANGED <<pathIno, tmpIno, inoData, inoMtime, invs, served, lastDone, overlap,
                   readFault, renames, proc, rvars, xvars>>

\* fetch_usage_with_lock: get_api_cache_path (get_cache_dir, create_dir_all)
get_api_cache_path(p) ==
    /\ proc[p].pc \in {"idle", "done"}
    /\ invs < MaxInv
    /\ invs' = invs + 1
    /\ \E ok \in BOOLEAN :
         Set(p, [IdleProc EXCEPT
                   !.pc = IF ok THEN "open" ELSE "ret",
                   !.res = IF ok THEN 0 ELSE -2,
                   !.basis = IF lastDone[1] # 0 /\ IsFresh(lastDone[2], now)
                             THEN lastDone ELSE <<0, 0>>])
    /\ overlap' = (overlap /\ \A q \in Procs : proc[q].pc # "done")
    /\ UNCHANGED <<xvars, rvars, now, pathIno, tmpIno, inoData, inoMtime, served, lastDone, readFault, renames>>

\* OpenOptions::new().create(true).read(true).write(true).truncate(false).open(&cache_path)
open_cache(p) ==
    /\ proc[p].pc = "open"
    /\ \/ /\ pathIno # 0
          /\ Set(p, [proc[p] EXCEPT !.pc = "try", !.fd = pathIno])
          /\ UNCHANGED <<pathIno, inoData, inoMtime>>
       \/ /\ pathIno = 0
          /\ pathIno' = NewIno
          /\ inoData' = [inoData EXCEPT ![NewIno] = <<>>]
          /\ inoMtime' = [inoMtime EXCEPT ![NewIno] = now]
          /\ Set(p, [proc[p] EXCEPT !.pc = "try", !.fd = NewIno])
       \/ /\ Set(p, [proc[p] EXCEPT !.pc = "ret", !.res = -2])
          /\ UNCHANGED <<pathIno, inoData, inoMtime>>
    /\ UNCHANGED <<xvars, rvars, now, tmpIno, invs, served, lastDone, overlap, readFault, renames>>

\* file.try_lock_exclusive(): Ok, WouldBlock, or another error
try_lock_exclusive(p) ==
    /\ proc[p].pc = "try"
    /\ \/ /\ ~AnyHeldByOther(p)
          /\ Set(p, [proc[p] EXCEPT !.pc = "check", !.held = "ex"])
       \/ /\ AnyHeldByOther(p)
          /\ Set(p, [proc[p] EXCEPT !.pc = "swait", !.contended = TRUE,
                                    !.blocker = ExHolder(p),
                                    !.expect = IF ExHolder(p) = 0 THEN 0
                                               ELSE proc[ExHolder(p)].wrote])
       \/ Set(p, [proc[p] EXCEPT !.pc = "ret", !.res = -2])
    /\ UNCHANGED <<xvars, rvars, now, pathIno, tmpIno, inoData, inoMtime, invs, served, lastDone, overlap, readFault, renames>>

\* fetch_or_use_cache: file.metadata(), mtime.elapsed() against CACHE_TTL_SECS
check_freshness(p) ==
    /\ proc[p].pc = "check"
    /\ \/ IF IsFresh(inoMtime[proc[p].fd], now)
          THEN Set(p, [proc[p] EXCEPT !.pc = "xread"])
          ELSE Set(p, [proc[p] EXCEPT !.pc = "fetch", !.why = "stale"])
       \/ Set(p, [proc[p] EXCEPT !.pc = "unlock", !.res = -2])
    /\ UNCHANGED <<xvars, rvars, now, pathIno, tmpIno, inoData, inoMtime, invs, served, lastDone, overlap, readFault, renames>>

\* fetch_or_use_cache: the cache is fresh, read_cache_from_file(file); any Err falls
\* through to the fetch
read_fresh_cache(p) ==
    /\ proc[p].pc = "xread"
    /\ LET r == read_cache_from_file(inoData[proc[p].fd]) IN
       \/ /\ IF r > 0
             THEN Set(p, [proc[p] EXCEPT !.pc = "unlock", !.res = r])
             ELSE Set(p, [proc[p] EXCEPT !.pc = "fetch", !.why = "invalid"])
          /\ UNCHANGED readFault
       \/ /\ Set(p, [proc[p] EXCEPT !.pc = "fetch", !.why = "ioerr"])
          /\ readFault' = TRUE
    /\ UNCHANGED <<xvars, rvars, now, pathIno, tmpIno, inoData, inoMtime, invs, served, lastDone, overlap, renames>>

\* fetch_api_response: read_oauth_credentials, then send the request
fetch_api_request(p) ==
    /\ proc[p].pc = "fetch"
    /\ \/ Set(p, [proc[p] EXCEPT !.pc = "net", !.net = @ + 1])
       \/ Set(p, [proc[p] EXCEPT !.pc = "unlock", !.res = -2])
    /\ UNCHANGED <<xvars, rvars, now, pathIno, tmpIno, inoData, inoMtime, invs, served, lastDone, overlap, readFault, renames>>

\* mutant: a failed fetch touches the cache file, so that it counts as fresh for a while
fetch_api_response_backoff(p) ==
    /\ proc[p].pc = "net"
    /\ \/ /\ served' = served + 1
          /\ Set(p, [proc[p] EXCEPT !.pc = "wopen", !.resp = served + 2])
          /\ UNCHANGED inoMtime
       \/ /\ Set(p, [proc[p] EXCEPT !.pc = "unlock", !.res = -2])
          /\ inoMtime' = [inoMtime EXCEPT ![proc[p].fd] = now]
          /\ UNCHANGED served
    /\ UNCHANGED <<xvars, rvars, now, pathIno, tmpIno, inoData, invs, lastDone, overlap, readFault, renames>>

\* mutant: a failed request is sent again
fetch_api_response_retry(p) ==
    /\ proc[p].pc = "net"
    /\ \/ /\ served' = served + 1
          /\ Set(p, [proc[p] EXCEPT !.pc = "wopen", !.resp = served + 2])
       \/ /\ Set(p, [proc[p] EXCEPT !.pc = "fetch"])
          /\ UNCHANGED served
    /\ UNCHANGED <<xvars, rvars, now, pathIno, tmpIno, inoData, inoMtime, invs, lastDone, overlap, readFault, renames>>

\* fetch_api_response: the response arrives (success), or timeout / bad status / bad body
fetch_api_response(p) ==
    /\ proc[p].pc = "net"
    /\ \/ /\ served' = served + 1
          /\ Set(p, [proc[p] EXCEPT !.pc = "wopen", !.resp = served + 2])
       \/ /\ Set(p, [proc[p] EXCEPT !.pc = "unlock", !.res = -2])
          /\ UNCHANGED served
    /\ UNCHANGED <<xvars, rvars, now, pathIno, tmpIno, inoData, inoMtime, invs, lastDone, overlap, readFault, renames>>

\* fs::write(&temp_path, json): open with create + truncate
fs_write_open(p) ==
    /\ proc[p].pc = "wopen"
    /\ \/ /\ tmpIno # 0
          /\ inoData' = [inoData EXCEPT ![tmpIno] = <<>>]
          /\ inoMtime' = [inoMtime EXCEPT ![tmpIno] = now]
          /\ Set(p, [proc[p] EXCEPT !.pc = "wwrite", !.wfd = tmpIno, !.woff = 0])
          /\ UNCHANGED tmpIno
       \/ /\ tmpIno = 0
          /\ tmpIno' = NewIno
          /\ inoData' = [inoData EXCEPT ![NewIno] = <<>>]
          /\ inoMtime' = [inoMtime EXCEPT ![NewIno] = now]
          /\ Set(p, [proc[p] EXCEPT !.pc = "wwrite", !.wfd = NewIno, !.woff = 0])
       \/ /\ Set(p, [proc[p] EXCEPT !.pc = "unlock", !.res = -2])
          /\ UNCHANGED <<tmpIno, inoData, inoMtime>>
    /\ UNCHANGED <<xvars, rvars, now, pathIno, invs, served, lastDone, overlap, readFault, renames>>

\* fs::write(&temp_path, json): write_all, one write() per chunk, then the file is closed
fs_write_chunk(p) ==
    /\ proc[p].pc = "wwrite"
    /\ \/ LET last == proc[p].woff + 1 = ChunkCount
              d == [inoData EXCEPT ![proc[p].wfd] = WriteAt(@, proc[p].woff, proc[p].resp, 0)]
              m == [inoMtime EXCEPT ![proc[p].wfd] = now]
          IN /\ Set(p, [proc[p] EXCEPT
                          !.woff = IF last THEN 0 ELSE @ + 1,
                          !.pc = IF last THEN "rename" ELSE "wwrite",
                          !.wfd = IF last THEN 0 ELSE @])
             /\ inoData' = Reclaim(d, pathIno, tmpIno, proc', <<>>)
             /\ inoMtime' = Reclaim(m, pathIno, tmpIno, proc', 0)
       \/ /\ Set(p, [proc[p] EXCEPT !.pc = "unlock", !.res = -2, !.wfd = 0, !.woff = 0])
          /\ inoData' = Reclaim(inoData, pathIno, tmpIno, proc', <<>>)
          /\ inoMtime' = Reclaim(inoMtime, pathIno, tmpIno, proc', 0)
    /\ UNCHANGED <<xvars, rvars, now, pathIno, tmpIno, invs, served, lastDone, overlap, readFault, renames>>

\* fs::rename(&temp_path, cache_path), then Ok(parse_api_response(api_response))
fs_rename(p) ==
    /\ proc[p].pc = "rename"
    /\ \/ /\ tmpIno # 0
          /\ pathIno' = tmpIno
          /\ tmpIno' = 0
          /\ proc' = [q \in Procs |->
                IF q = p
                THEN [proc[p] EXCEPT !.pc = "unlock", !.res = proc[p].resp,
                                     !.wrote = proc[p].resp, !.resp = 0,
                                     !.wtime = inoMtime[tmpIno]]
                ELSE IF proc[q].pc = "swait" /\ proc[q].blocker = p
                     THEN [proc[q] EXCEPT !.expect = proc[p].resp]
                     ELSE proc[q]]
          /\ inoData' = Reclaim(inoData, pathIno', tmpIno', proc', <<>>)
          /\ inoMtime' = Reclaim(inoMtime, pathIno', tmpIno', proc', 0)
          /\ renames' = renames + 1
       \/ /\ Set(p, [proc[p] EXCEPT !.pc = "unlock", !.res = -2, !.resp = 0])
          /\ UNCHANGED <<pathIno, tmpIno, inoData, inoMtime, renames>>
    /\ UNCHANGED <<xvars, rvars, now, invs, served, lastDone, overlap, readFault>>

\* file.lock_shared(): blocks while another open file holds the exclusive lock
lock_shared(p) ==
    /\ proc[p].pc = "swait"
    /\ \/ /\ ~ExHeldByOther(p)
          /\ Set(p, [proc[p] EXCEPT !.pc = "sread", !.held = "sh", !.blocker = 0])
       \/ Set(p, [proc[p] EXCEPT !.pc = "ret", !.res = -2, !.blocker = 0])
    /\ UNCHANGED <<xvars, rvars, now, pathIno, tmpIno, inoData, inoMtime, invs, served, lastDone, overlap, readFault, renames>>

\* mutant: the WouldBlock arm falls back to its own fetch when the cache cannot be read
read_shared_or_fetch(p) ==
    /\ proc[p].pc = "sread"
    /\ LET r == read_cache_from_file(inoData[proc[p].fd]) IN
       IF r > 0
       THEN Set(p, [proc[p] EXCEPT !.pc = "unlock", !.res = r])
       ELSE Set(p, [proc[p] EXCEPT !.pc = "fetch", !.why = "invalid"])
    /\ UNCHANGED <<xvars, rvars, now, pathIno, tmpIno, inoData, inoMtime, invs, served, lastDone, overlap, readFault, renames>>

\* the WouldBlock arm: read_cache_from_file(&mut file), never a fetch
read_shared(p) ==
    /\ proc[p].pc = "sread"
    /\ \/ Set(p, [proc[p] EXCEPT !.pc = "unlock",
                                 !.res = read_cache_from_file(inoData[proc[p].fd])])
       \/ Set(p, [proc[p] EXCEPT !.pc = "unlock", !.res = -2])
    /\ UNCHANGED <<xvars, rvars, now, pathIno, tmpIno, inoData, inoMtime, invs, served, lastDone, overlap, readFault, renames>>

\* mutant: after a failed unlock the file stays open, and locked, past the return
unlock_keeps_lock_on_error(p) ==
    /\ proc[p].pc = "unlock"
    /\ \/ Set(p, [proc[p] EXCEPT !.pc = "ret", !.held = "none"])
       \/ Set(p, [proc[p] EXCEPT !.pc = "ret", !.res = -2])
    /\ UNCHANGED <<xvars, rvars, now, pathIno, tmpIno, inoData, inoMtime, invs, served, lastDone, overlap, readFault, renames>>

\* file.unlock()?; the result is returned only when the unlock succeeded
unlock(p) ==
    /\ proc[p].pc = "unlock"
    /\ \/ Set(p, [proc[p] EXCEPT !.pc = "ret", !.held = "none"])
       \/ Set(p, [proc[p] EXCEPT !.pc = "ret", !.held = "none", !.res = -2])
    /\ UNCHANGED <<xvars, rvars, now, pathIno, tmpIno, inoData, inoMtime, invs, served, lastDone, overlap, readFault, renames>>

\* fetch_usage: map the Result to an Option; the File is dropped (closed)
fetch_usage(p) ==
    /\ proc[p].pc = "ret"
    /\ Set(p, [IdleProc EXCEPT !.pc = "done", !.res = proc[p].res,
                               !.out = fetch_usage_result(proc[p].res)])
    /\ lastDone' = IF proc[p].wrote # 0 /\ proc[p].res = proc[p].wrote
                   THEN <<proc[p].wrote, proc[p].wtime>> ELSE lastDone
    /\ inoData' = Reclaim(inoData, pathIno, tmpIno, proc', <<>>)
    /\ inoMtime' = Reclaim(inoMtime, pathIno, tmpIno, proc', 0)
    /\ UNCHANGED <<xvars, rvars, now, pathIno, tmpIno, invs, served, overlap, readFault, renames>>

\* ===================================================== Render-Result Cache
Keys == 1..NKeys

\* a chunk that belongs to no record (the hole a write past the end leaves)
NoRec == [text |-> -1, time |-> 0, mtime |-> 0]

\* mutant: the two timestamps are stored in each other's field
Semaphore_swapped(text, t, m) == [text |-> text, time |-> m, mtime |-> t]

\* Semaphore { last_output, last_update_time, transcript_mtime } as update_cache builds it
Semaphore(text, t, m) == [text |-> text, time |-> t, mtime |-> m]

\* the string last_output of a content whose chunk boundaries fall inside that string:
\* the text of the record when every chunk was written from a record with that text,
\* else a string put together from two texts (negative: it is no text of any record)
JoinText(c) ==
    IF \A i \in 1..Len(c) : c[i].text = c[1].text
    THEN c[1].text ELSE 0 - c[1].text - c[Len(c)].text

\* serde_json::from_str::<Semaphore>: the record a content encodes, NoRec when it does not
\* parse (too short, or a hole of NUL bytes in it).  The fields are serialised in the
\* order last_output, last_update_time, transcript_mtime, so the two numbers are those
\* of the record the last chunk was written from; records are of one length.
ParseSemaphore(c) ==
    IF Len(c) = ChunkCount /\ \A i \in 1..Len(c) : c[i] # NoRec
    THEN [text |-> JoinText(c), time |-> c[Len(c)].time, mtime |-> c[Len(c)].mtime]
    ELSE NoRec

\* mutant: a record exactly 30 s old still counts as fresh
is_expired_late(t, last_update_time) == t - last_update_time > RENDER_TTL_SECS

\* let is_expired = now - semaphore.last_update_time >= 30
is_expired(t, last_update_time) == t - last_update_time >= RENDER_TTL_SECS

\* let is_file_modified = current_mtime != semaphore.transcript_mtime
is_file_modified(current_mtime, s) == current_mtime # s.mtime

IdleRender ==
    [pc |-> "idle", key |-> 0, held |-> "none", buf |-> <<>>, text |-> 0,
     rec |-> NoRec, put |-> NoRec, woff |-> 0, hit |-> FALSE, printed |-> 0, err |-> "",
     dirty |-> FALSE]

\* update_cache has opened (and truncated) the file of key k and has not returned yet;
\* dirty: another update_cache has truncated the file since this one opened it
Updating(q, k) ==
    rproc[q].key = k /\ rproc[q].pc \in {"ulock", "ustat", "uwrite", "uunlock"}

RExHeldByOther(p) ==
    \E q \in Procs \ {p} : rproc[q].key = rproc[p].key /\ rproc[q].held = "ex"

RAnyHeldByOther(p) ==
    \E q \in Procs \ {p} : rproc[q].key = rproc[p].key /\ rproc[q].held # "none"

RenderInit0 ==
    /\ rfile = [k \in Keys |-> [exists |-> FALSE, data |-> <<>>]]
    /\ transcript = [k \in Keys |-> [mtime |-> 0, ver |-> 1]]
    /\ touches = 0
    /\ lastPut = [k \in Keys |-> NoRec]
    /\ puts = [k \in Keys |-> {}]
    /\ rproc = [p \in Procs |-> IdleRender]

RSet(p, r) == rproc' = [rproc EXCEPT ![p] = r]

\* the transcript of session k is appended to
touch_transcript(k) ==
    /\ touches < MaxTouch
    /\ touches' = touches + 1
    /\ transcript' = [transcript EXCEPT ![k] = [mtime |-> now, ver |-> @.ver + 1]]
    /\ UNCHANGED <<xvars, qvars, rfile, lastPut, puts, rproc>>

\* main: read the hook data (session id, transcript path), get_cache_dir, create_dir_all
main_start(p) ==
    /\ rproc[p].pc \in {"idle", "done", "fail"}
    /\ invs < MaxInv
    /\ invs' = invs + 1
    /\ \/ \E k \in Keys : RSet(p, [IdleRender EXCEPT !.pc = "gopen", !.key = k])
       \/ RSet(p, [IdleRender EXCEPT !.pc = "fail", !.err = "main"])
    /\ UNCHANGED <<now, pathIno, tmpIno, inoData, inoMtime, served, lastDone, overlap,
                   readFault, renames, proc, rfile, transcript, touches, lastPut, puts, xvars>>

\* try_get_cached: cache_path.exists(), File::open(cache_path)
try_get_open(p) ==
    /\ rproc[p].pc = "gopen"
    /\ \/ /\ ~rfile[rproc[p].key].exists
          /\ RSet(p, [rproc[p] EXCEPT !.pc = "gen"])
       \/ /\ rfile[rproc[p].key].exists
          /\ \/ RSet(p, [rproc[p] EXCEPT !.pc = "glock"])
             \/ RSet(p, [rproc[p] EXCEPT !.pc = "gen"])
    /\ UNCHANGED <<xvars, qvars, rfile, transcript, touches, lastPut, puts>>

\* try_get_cached: FileExt::try_lock_shared(&file), never blocking
try_lock_shared(p) ==
    /\ rproc[p].pc = "glock"
    /\ \/ /\ ~RExHeldByOther(p)
          /\ RSet(p, [rproc[p] EXCEPT !.pc = "gread", !.held = "sh"])
       \/ /\ RExHeldByOther(p)
          /\ RSet(p, [rproc[p] EXCEPT !.pc = "gen"])
       \/ RSet(p, [rproc[p] EXCEPT !.pc = "gen"])
    /\ UNCHANGED <<xvars, qvars, rfile, transcript, touches, lastPut, puts>>

\* try_get_cached: file.read_to_string(&mut contents)?
try_get_read(p) ==
    /\ rproc[p].pc = "gread"
    /\ \/ RSet(p, [rproc[p] EXCEPT !.pc = "gcheck", !.buf = rfile[rproc[p].key].data])
       \/ RSet(p, [rproc[p] EXCEPT !.pc = "fail", !.held = "none", !.err = "try_get_cached"])
    /\ UNCHANGED <<xvars, qvars, rfile, transcript, touches, lastPut, puts>>

\* try_get_cached: parse, is_expired, get_file_mtime(transcript_path)?, is_file_modified
try_get_check(p) ==
    /\ rproc[p].pc = "gcheck"
    /\ LET k == rproc[p].key
           s == ParseSemaphore(rproc[p].buf)
       IN IF s = NoRec
          THEN RSet(p, [rproc[p] EXCEPT !.pc = "gen", !.held = "none", !.buf = <<>>])
          ELSE \/ IF is_expired(now, s.time) \/ is_file_modified(transcript[k].mtime, s)
                  THEN RSet(p, [rproc[p] EXCEPT !.pc = "gen", !.held = "none", !.buf = <<>>])
                  ELSE RSet(p, [rproc[p] EXCEPT !.pc = "done", !.held = "none", !.buf = <<>>,
                                                !.hit = TRUE, !.printed = s.text])
               \/ RSet(p, [rproc[p] EXCEPT !.pc = "fail", !.held = "none", !.buf = <<>>,
                                             !.err = "try_get_cached"])
    /\ UNCHANGED <<xvars, qvars, rfile, transcript, touches, lastPut, puts>>

\* main: generate_statusline(&hook_data)?, computed from the transcript and the usage logs
generate_statusline(p) ==
    /\ rproc[p].pc = "gen"
    /\ \/ RSet(p, [rproc[p] EXCEPT !.pc = "uopen", !.text = transcript[rproc[p].key].ver,
                                   !.printed = transcript[rproc[p].key].ver])
       \/ RSet(p, [rproc[p] EXCEPT !.pc = "fail", !.err = "generate_statusline"])
    /\ UNCHANGED <<xvars, qvars, rfile, transcript, touches, lastPut, puts>>

\* update_cache: OpenOptions::new().create(true).write(true).truncate(true).open(cache_path)?
update_open(p) ==
    /\ rproc[p].pc = "uopen"
    /\ \/ /\ rfile' = [rfile EXCEPT ![rproc[p].key] = [exists |-> TRUE, data |-> <<>>]]
          /\ lastPut' = [lastPut EXCEPT ![rproc[p].key] = NoRec]
          /\ rproc' = [q \in Procs |->
                IF q = p THEN [rproc[p] EXCEPT !.pc = "ulock"]
                ELSE IF Updating(q, rproc[p].key) THEN [rproc[q] EXCEPT !.dirty = TRUE]
                ELSE rproc[q]]
       \/ /\ RSet(p, [rproc[p] EXCEPT !.pc = "fail", !.err = "update_cache", !.dirty = FALSE])
          /\ UNCHANGED <<rfile, lastPut>>
    /\ puts' = [puts EXCEPT ![rproc[p].key] = @ \cup {rproc[p].text}]
    /\ UNCHANGED <<xvars, qvars, transcript, touches>>

\* update_cache: file.lock_exclusive()?, blocking while any other open file holds a lock
lock_exclusive(p) ==
    /\ rproc[p].pc = "ulock"
    /\ \/ /\ ~RAnyHeldByOther(p)
          /\ RSet(p, [rproc[p] EXCEPT !.pc = "ustat", !.held = "ex"])
       \/ RSet(p, [rproc[p] EXCEPT !.pc = "fail", !.err = "update_cache", !.dirty = FALSE])
    /\ UNCHANGED <<xvars, qvars, rfile, transcript, touches, lastPut, puts>>

\* update_cache: SystemTime::now(), get_file_mtime(transcript_path)?, build the Semaphore
update_stat(p) ==
    /\ rproc[p].pc = "ustat"
    /\ \/ RSet(p, [rproc[p] EXCEPT !.pc = "uwrite", !.woff = 0,
                     !.rec = Semaphore(rproc[p].text, now, transcript[rproc[p].key].mtime),
                     !.put = [text |-> rproc[p].text, time |-> now,
                              mtime |-> transcript[rproc[p].key].mtime]])
       \/ RSet(p, [rproc[p] EXCEPT !.pc = "fail", !.held = "none", !.err = "update_cache", !.dirty = FALSE])
    /\ UNCHANGED <<xvars, qvars, rfile, transcript, touches, lastPut, puts>>

\* update_cache: file.write_all(json.as_bytes())?, one write() per chunk
update_write(p) ==
    /\ rproc[p].pc = "uwrite"
    /\ \/ /\ rfile' = [rfile EXCEPT ![rproc[p].key].data =
                            WriteAt(@, rproc[p].woff, rproc[p].rec, NoRec)]
          /\ RSet(p, [rproc[p] EXCEPT
                        !.woff = IF rproc[p].woff + 1 = ChunkCount THEN 0 ELSE @ + 1,
                        !.pc = IF rproc[p].woff + 1 = ChunkCount THEN "uunlock" ELSE "uwrite"])
       \/ /\ RSet(p, [rproc[p] EXCEPT !.pc = "fail", !.held = "none", !.woff = 0,
                                      !.rec = NoRec, !.put = NoRec, !.err = "update_cache", !.dirty = FALSE])
          /\ UNCHANGED rfile
    /\ UNCHANGED <<xvars, qvars, transcript, touches, lastPut, puts>>

\* update_cache: FileExt::unlock(&file)?, Ok(()); main returns
update_unlock(p) ==
    /\ rproc[p].pc = "uunlock"
    /\ RSet(p, [rproc[p] EXCEPT !.pc = "done", !.held = "none", !.rec = NoRec, !.put = NoRec,
                               !.dirty = FALSE])
    /\ lastPut' = [lastPut EXCEPT ![rproc[p].key] =
                      IF rproc[p].dirty \/ \E q \in Procs \ {p} : Updating(q, rproc[p].key)
                      THEN NoRec ELSE rproc[p].put]
    /\ UNCHANGED <<xvars, qvars, rfile, transcript, touches, puts>>

\* ================================================== Usage-Log Scan (blocks.rs)
\* a timestamp string "YYYY-MM-DDTHH:MM:SS" followed by a zone designator: local is the
\* date-time part in ms since the day's 09:00:00, zone is "Z", "+02:00" or "" (none)
Timestamp(local, zone) == [local |-> local, zone |-> zone]

HOUR_MS == 60 * 60 * 1000

\* byte order of what follows the date-time part: end of string < '+' < 'Z'
ZoneRank(zone) == IF zone = "" THEN 0 ELSE IF zone = "+02:00" THEN 1 ELSE 2

\* a.timestamp.cmp(&b.timestamp) is not Greater: byte-wise comparison of the two strings
StrLeq(a, b) ==
    \/ a.local < b.local
    \/ a.local = b.local /\ ZoneRank(a.zone) <= ZoneRank(b.zone)

\* Option<String>
None == {}
Some(v) == {v}
Unwrap(o) == CHOOSE v \in o : TRUE

\* UsageData { timestamp, message: { id, model, .. }, request_id }
\* UsageTokens
UsageTokens(input, output, cache_creation, cache_read) ==
    [input_tokens |-> input, output_tokens |-> output,
     cache_creation_input_tokens |-> cache_creation, cache_read_input_tokens |-> cache_read]

UsageData(ts, mid, rid, model, usage) ==
    [timestamp |-> ts, id |-> mid, request_id |-> rid, model |-> model, usage |-> usage]

\* hash = msg_id + ":" + req_id
DedupHash(msg_id, req_id) == msg_id \o <<":">> \o req_id

HasHash(e) == e.id # None /\ e.request_id # None

HashOf(e) == DedupHash(Unwrap(e.id), Unwrap(e.request_id))

\* all_entries.sort_by(|a, b| a.timestamp.cmp(&b.timestamp)): a stable sort
RECURSIVE InsertByTimestamp(_, _)
InsertByTimestamp(sorted, e) ==
    IF sorted = <<>> THEN <<e>>
    ELSE IF StrLeq(sorted[Len(sorted)].timestamp, e.timestamp)
         THEN Append(sorted, e)
         ELSE Append(InsertByTimestamp(SubSeq(sorted, 1, Len(sorted) - 1), e),
                     sorted[Len(sorted)])

RECURSIVE SortByTimestamp(_)
SortByTimestamp(entries) ==
    IF entries = <<>> THEN <<>>
    ELSE InsertByTimestamp(SortByTimestamp(SubSeq(entries, 1, Len(entries) - 1)),
                           entries[Len(entries)])

\* (modified_duration.as_secs() as i64) < file_cutoff_timestamp, ages in hours
OutsideLookback(age_hours) == age_hours > FILE_LOOKBACK_HOURS

IdStrings == {<<"a">>, <<"a", ":", "a">>}
\* (message id, request id) of a line: one of the two missing, or both present
IdPairs ==
    {<<None, Some(<<"a">>)>>, <<Some(<<"a">>), None>>}
        \cup {<<Some(<<"a">>), Some(r)>> : r \in IdStrings}
        \cup {<<Some(<<"a", ":", "a">>), Some(<<"a">>)>>}
ScanStamps == {Timestamp(0, "Z"), Timestamp(HOUR_MS, "Z")}
NoModel == None
OneToken == UsageTokens(1, 1, 0, 0)
ScanLines ==
    {UsageData(ts, ids[1], ids[2], NoModel, OneToken) : ts \in ScanStamps, ids \in IdPairs}

\* ======================================================= Pricing (types.rs)
\* Option::unwrap_or
UnwrapOr(o, d) == IF o = None THEN d ELSE Unwrap(o)

\* ModelPricing; prices are integers, in units of 0.05 micro-dollars per token
ModelPricing(base, tiered) ==
    [input_cost_per_token |-> base[1],
     output_cost_per_token |-> base[2],
     cache_creation_input_token_cost |-> base[3],
     cache_read_input_token_cost |-> base[4],
     input_cost_per_token_above_200k_tokens |-> tiered[1],
     output_cost_per_token_above_200k_tokens |-> tiered[2],
     cache_creation_input_token_cost_above_200k_tokens |-> tiered[3],
     cache_read_input_token_cost_above_200k_tokens |-> tiered[4]]

\* mutant: a missing tiered price counts as zero
calculate_tiered_cost_no_default(tokens, base_price, tiered_price) ==
    IF tokens = 0 THEN 0
    ELSE LET base == UnwrapOr(base_price, 0) IN
         IF tokens <= THRESHOLD THEN tokens * base
         ELSE (THRESHOLD * base) + ((tokens - THRESHOLD) * UnwrapOr(tiered_price, 0))

\* ModelPricing::calculate_tiered_cost
calculate_tiered_cost(tokens, base_price, tiered_price) ==
    IF tokens = 0 THEN 0
    ELSE LET base == UnwrapOr(base_price, 0) IN
         IF tokens <= THRESHOLD THEN tokens * base
         ELSE (THRESHOLD * base) + ((tokens - THRESHOLD) * UnwrapOr(tiered_price, base))

\* ModelPricing::calculate_cost: input_cost, output_cost, cache_write_cost, cache_read_cost
calculate_cost(pricing, usage) ==
    <<calculate_tiered_cost(usage.input_tokens, pricing.input_cost_per_token,
                            pricing.input_cost_per_token_above_200k_tokens),
      calculate_tiered_cost(usage.output_tokens, pricing.output_cost_per_token,
                            pricing.output_cost_per_token_above_200k_tokens),
      calculate_tiered_cost(usage.cache_creation_input_tokens,
                            pricing.cache_creation_input_token_cost,
                            pricing.cache_creation_input_token_cost_above_200k_tokens),
      calculate_tiered_cost(usage.cache_read_input_tokens,
                            pricing.cache_read_input_token_cost,
                            pricing.cache_read_input_token_cost_above_200k_tokens)>>

Sum4(c) == c[1] + c[2] + c[3] + c[4]

\* model names, as sequences of string pieces (so that a prefix can be put in front)
SONNET_4 == <<"claude-", "sonnet-4-20250514">>
SONNET_4_5 == <<"claude-", "sonnet-4-5-20250929">>
OPUS_4_1 == <<"claude-", "opus-4-1-20250805">>

\* estimate_cost_fallback: the hardcoded prices of the model (base prices, tiered prices)
FallbackPrices(model) ==
    IF model = SONNET_4_5 THEN <<<<60, 300, 75, 6>>, <<60, 300, 75, 6>>>>
    ELSE IF model = OPUS_4_1 THEN <<<<300, 1500, 375, 30>>, <<300, 1500, 375, 30>>>>
    ELSE <<<<60, 300, 75, 6>>, <<120, 450, 150, 12>>>>

\* estimate_cost_fallback: the calc_tiered closure
calc_tiered(tokens, base_price, tiered_price) ==
    IF tokens <= THRESHOLD THEN tokens * base_price
    ELSE (THRESHOLD * base_price) + ((tokens - THRESHOLD) * tiered_price)

\* estimate_cost_fallback: input_cost, output_cost, cache_write_cost, cache_read_cost
estimate_cost_fallback(entry) ==
    LET p == FallbackPrices(UnwrapOr(entry.model, SONNET_4)) IN
    <<calc_tiered(entry.usage.input_tokens, p[1][1], p[2][1]),
      calc_tiered(entry.usage.output_tokens, p[1][2], p[2][2]),
      calc_tiered(entry.usage.cache_creation_input_tokens, p[1][3], p[2][3]),
      calc_tiered(entry.usage.cache_read_input_tokens, p[1][4], p[2][4])>>

\* str::to_lowercase, piece by piece
LowerPiece(c) == IF c = "M" THEN "m" ELSE IF c = "C" THEN "c" ELSE IF c = "D" THEN "d" ELSE c
to_lowercase(str) == [i \in DOMAIN str |-> LowerPiece(str[i])]

Prefixes == <<"anthropic/", "claude-", "openai/">>

RECURSIVE FirstMatch(_, _, _)
\* for (key, pricing) in &self.models: the first key, in iteration order, that matches
FirstMatch(order, i, model_lower) ==
    IF i > Len(order) THEN None
    ELSE IF to_lowercase(order[i]) = model_lower THEN Some(order[i])
    ELSE FirstMatch(order, i + 1, model_lower)

\* mutant: of the prefixed candidates the last one found wins
get_model_pricing_last_prefix(table, order, model_name) ==
    IF model_name \in DOMAIN table THEN Some(model_name)
    ELSE LET hits == {i \in 1..Len(Prefixes) : (<<Prefixes[i]>> \o model_name) \in DOMAIN table} IN
         IF hits # {}
         THEN Some(<<Prefixes[CHOOSE i \in hits : \A j \in hits : i >= j]>> \o model_name)
         ELSE FirstMatch(order, 1, to_lowercase(model_name))

\* PricingFetcher::get_model_pricing: the key whose pricing is returned
get_model_pricing(table, order, model_name) ==
    IF model_name \in DOMAIN table THEN Some(model_name)
    ELSE LET hits == {i \in 1..Len(Prefixes) : (<<Prefixes[i]>> \o model_name) \in DOMAIN table} IN
         IF hits # {}
         THEN Some(<<Prefixes[CHOOSE i \in hits : \A j \in hits : i <= j]>> \o model_name)
         ELSE FirstMatch(order, 1, to_lowercase(model_name))

\* if let Some(model_name) = &entry.message.model && let Some(pricing) = get_model_pricing(..)
PricedByTable(table, order, entry) ==
    entry.model # None /\ get_model_pricing(table, order, Unwrap(entry.model)) # None

\* PricingFetcher::calculate_entry_cost: the four category costs of the entry
EntryCategoryCosts(table, order, entry) ==
    IF PricedByTable(table, order, entry)
    THEN calculate_cost(table[Unwrap(get_model_pricing(table, order, Unwrap(entry.model)))],
                        entry.usage)
    ELSE estimate_cost_fallback(entry)

\* PricingFetcher::calculate_entry_cost
calculate_entry_cost(table, order, entry) == Sum4(EntryCategoryCosts(table, order, entry))

\* the iteration orders a HashMap with these keys can have
RECURSIVE Orders(_)
Orders(keys) ==
    IF keys = {} THEN {<<>>}
    ELSE UNION {{<<k>> \o o : o \in Orders(keys \ {k})} : k \in keys}

\* ------------------------------------------------ the cost of one usage entry
TokenCounts == {0, THRESHOLD, THRESHOLD + 1}
PriceOptions == {<<None, None>>, <<Some(2), None>>, <<Some(2), Some(3)>>, <<None, Some(3)>>}
CostModels ==
    {None, Some(<<"m">>), Some(<<"x">>), Some(<<"M">>), Some(SONNET_4), Some(SONNET_4_5),
     Some(OPUS_4_1), Some(<<"zz">>)}

CostIdle ==
    /\ cost_entry = UsageData(Timestamp(0, "Z"), None, None, None, UsageTokens(0, 0, 0, 0))
    /\ category_costs = <<0, 0, 0, 0>>
    /\ entry_cost = 0
    /\ pricing_key = None
    /\ cpc = "idle"

PricingIdle ==
    /\ models = <<>>
    /\ iter_order = <<>>

\* a PricingFetcher whose table prices the keys "m" and "claude-x", and a usage entry
CostInit0 ==
    /\ \E i, o, w, r \in PriceOptions :
          LET p == ModelPricing(<<i[1], o[1], w[1], r[1]>>, <<i[2], o[2], w[2], r[2]>>) IN
          models = (<<"m">> :> p) @@ (<<"claude-", "x">> :> p)
    /\ iter_order \in Orders({<<"m">>, <<"claude-", "x">>})
    /\ \E m \in CostModels, i, o, w, r \in TokenCounts :
          cost_entry = UsageData(Timestamp(0, "Z"), None, None, m, UsageTokens(i, o, w, r))
    /\ category_costs = <<0, 0, 0, 0>>
    /\ entry_cost = 0
    /\ pricing_key = None
    /\ cpc = "cost"

\* PricingFetcher::calculate_entry_cost, the model is priced by the table
cost_from_table ==
    /\ cpc = "cost"
    /\ PricedByTable(models, iter_order, cost_entry)
    /\ category_costs' = EntryCategoryCosts(models, iter_order, cost_entry)
    /\ entry_cost' = calculate_entry_cost(models, iter_order, cost_entry)
    /\ pricing_key' = get_model_pricing(models, iter_order, Unwrap(cost_entry.model))
    /\ cpc' = "table"
    /\ UNCHANGED <<qvars, rvars, lvars, svars, bvars, pvars, cost_entry>>

\* PricingFetcher::calculate_entry_cost, the model is not found: estimate_cost_fallback
cost_from_fallback ==
    /\ cpc = "cost"
    /\ ~PricedByTable(models, iter_order, cost_entry)
    /\ category_costs' = EntryCategoryCosts(models, iter_order, cost_entry)
    /\ entry_cost' = calculate_entry_cost(models, iter_order, cost_entry)
    /\ cpc' = "fallback"
    /\ UNCHANGED <<qvars, rvars, lvars, svars, bvars, pvars, cost_entry, pricing_key>>

\* ------------------------------------------- which price schedule prices an entry
\* the keys a table can hold for the model "m": the name itself, the three prefixed
\* candidates, and a key that equals the name only when case is ignored
ResolveKeys ==
    {<<"m">>, <<"anthropic/", "m">>, <<"claude-", "m">>, <<"openai/", "m">>, <<"M">>}

\* every key has a price of its own, so that the cost tells which key priced the entry
KeyPricing(key) ==
    LET price == IF key = <<"m">> THEN 1
                 ELSE IF key = <<"anthropic/", "m">> THEN 2
                 ELSE IF key = <<"claude-", "m">> THEN 3
                 ELSE IF key = <<"openai/", "m">> THEN 4
                 ELSE 5
    IN ModelPricing(<<Some(price), None, None, None>>, <<None, None, None, None>>)

ResolveModels ==
    {None, Some(<<"m">>), Some(<<"M">>), Some(<<"zz">>), Some(SONNET_4), Some(SONNET_4_5),
     Some(OPUS_4_1)}

\* a PricingFetcher whose table holds any subset of ResolveKeys, and a usage entry
ResolveInit0 ==
    /\ \E K \in SUBSET ResolveKeys :
          /\ models = [k \in K |-> KeyPricing(k)]
          /\ iter_order \in Orders(K)
    /\ \E m \in ResolveModels, i \in {1, THRESHOLD + 1} :
          cost_entry = UsageData(Timestamp(0, "Z"), None, None, m, UsageTokens(i, 1, 1, 1))
    /\ category_costs = <<0, 0, 0, 0>>
    /\ entry_cost = 0
    /\ pricing_key = None
    /\ cpc = "cost"

\* ================================================ Pricing table loader (pricing.rs)
\* PricingCache { timestamp, models }; a table is named by a number: table 1 is the one
\* the cache file holds at start, the k-th table the remote source serves is table k + 1
PricingCache(timestamp, tbl) == [timestamp |-> timestamp, models |-> tbl]

\* a chunk that belongs to no PricingCache (a hole, or bytes that are no JSON)
NoCache == PricingCache(0, 0)

\* serde_json::from_str::<PricingCache>(&cache_file)
ParsePricingCache(c) ==
    IF Len(c) = ChunkCount /\ c[1] # NoCache /\ \A i \in 1..Len(c) : c[i] = c[1]
    THEN Some(c[1]) ELSE None

\* if let Ok(cache_file) = fs::read_to_string(&pricing_cache_path)
\*     && let Ok(cached) = serde_json::from_str::<PricingCache>(&cache_file)
read_pricing_cache(file) ==
    IF file.exists THEN ParsePricingCache(file.data) ELSE None

\* age < Self::MAX_AGE_SECONDS
is_fresh_pricing(t, cached) == t - cached.timestamp < MAX_AGE_SECONDS

\* res: 0 unset, > 0 Ok(table), -1 Err; got: how the GET ended; via: where the result
\* came from; out: what generate_statusline returned
IdleLoad ==
    [pc |-> "idle", tbl |-> 0, stamp |-> 0, woff |-> 0, res |-> 0, got |-> "",
     via |-> "", out |-> ""]

AbsentFile == [exists |-> FALSE, data |-> <<>>]

LoadIdle ==
    /\ pricing_json = AbsentFile
    /\ unix_now = 0
    /\ loads = 0
    /\ remote_served = 0
    /\ fetch_times = <<>>
    /\ write_fault = FALSE
    /\ lproc = [p \in Procs |-> IdleLoad]

\* the cache file at start: absent, unparseable, or a PricingCache of table 1 written
\* 24 hours ago or one second less than that
LoadInit0 ==
    /\ unix_now = MAX_AGE_SECONDS
    /\ loads = 0
    /\ remote_served = 0
    /\ fetch_times = <<>>
    /\ write_fault = FALSE
    /\ lproc = [p \in Procs |-> IdleLoad]
    /\ pricing_json \in
          {AbsentFile, [exists |-> TRUE, data |-> <<NoCache>>]}
          \cup {[exists |-> TRUE, data |-> [i \in 1..ChunkCount |-> PricingCache(t, 1)]] :
                  t \in {0, 1}}

LSet(p, r) == lproc' = [lproc EXCEPT ![p] = r]

\* time passes
pricing_clock ==
    /\ \E d \in {MAX_AGE_SECONDS - 1, MAX_AGE_SECONDS} :
          /\ unix_now + d <= MAX_AGE_SECONDS + MaxTicks * MAX_AGE_SECONDS
          /\ unix_now' = unix_now + d
    /\ UNCHANGED <<qvars, rvars, svars, bvars, pvars, cvars, pricing_json, loads,
                   remote_served, fetch_times, write_fault, lproc>>

\* generate_statusline: get_cache_dir, create_dir_all, PricingFetcher::new(cache_dir)
PricingFetcher_new(p) ==
    /\ lproc[p].pc \in {"idle", "done"}
    /\ loads < MaxLoads
    /\ loads' = loads + 1
    /\ LSet(p, [IdleLoad EXCEPT !.pc = "read"])
    /\ UNCHANGED <<qvars, rvars, svars, bvars, pvars, cvars, pricing_json, unix_now,
                   remote_served, fetch_times, write_fault>>

\* load_pricing: the cache exists, parses and is fresh: return Ok(cached.models)
load_read_cache(p) ==
    /\ lproc[p].pc = "read"
    /\ LET c == read_pricing_cache(pricing_json) IN
       IF c # None /\ is_fresh_pricing(unix_now, Unwrap(c))
       THEN LSet(p, [lproc[p] EXCEPT !.pc = "ret", !.res = Unwrap(c).models, !.via = "cache"])
       ELSE LSet(p, [lproc[p] EXCEPT !.pc = "get"])
    /\ UNCHANGED <<qvars, rvars, svars, bvars, pvars, cvars, pricing_json, unix_now, loads,
                   remote_served, fetch_times, write_fault>>

\* load_pricing: reqwest::blocking::get(LITELLM_URL), response.status().is_success(),
\* response.json().context("Failed to parse pricing JSON")?
load_http_get(p) ==
    /\ lproc[p].pc = "get"
    /\ \/ /\ remote_served' = remote_served + 1
          /\ fetch_times' = Append(fetch_times, unix_now)
          /\ LSet(p, [lproc[p] EXCEPT !.pc = "wopen", !.got = "ok", !.tbl = remote_served + 2])
       \/ /\ LSet(p, [lproc[p] EXCEPT !.pc = "ret", !.got = "malformed", !.res = -1])
          /\ UNCHANGED <<remote_served, fetch_times>>
       \/ /\ \E g \in {"status", "network"} : LSet(p, [lproc[p] EXCEPT !.pc = "stale", !.got = g])
          /\ UNCHANGED <<remote_served, fetch_times>>
    /\ UNCHANGED <<qvars, rvars, svars, bvars, pvars, cvars, pricing_json, unix_now, loads,
                   write_fault>>

\* load_pricing: timestamp: Utc::now().timestamp(); let _ = fs::write(&pricing_cache_path,
\* cache_json): open with create + truncate; a failure is ignored
load_write_open(p) ==
    /\ lproc[p].pc = "wopen"
    /\ \/ /\ pricing_json' = [exists |-> TRUE, data |-> <<>>]
          /\ LSet(p, [lproc[p] EXCEPT !.pc = "wwrite", !.stamp = unix_now, !.woff = 0])
          /\ UNCHANGED write_fault
       \/ /\ LSet(p, [lproc[p] EXCEPT !.pc = "ret", !.res = lproc[p].tbl, !.via = "fetch"])
          /\ write_fault' = TRUE
          /\ UNCHANGED pricing_json
    /\ UNCHANGED <<qvars, rvars, svars, bvars, pvars, cvars, unix_now, loads, remote_served,
                   fetch_times>>

\* load_pricing: fs::write, write_all, one write() per chunk; then Ok(models)
load_write_chunk(p) ==
    /\ lproc[p].pc = "wwrite"
    /\ \/ /\ pricing_json' = [pricing_json EXCEPT !.data =
                 WriteAt(@, lproc[p].woff, PricingCache(lproc[p].stamp, lproc[p].tbl), NoCache)]
          /\ IF lproc[p].woff + 1 = ChunkCount
             THEN LSet(p, [lproc[p] EXCEPT !.pc = "ret", !.woff = 0, !.res = lproc[p].tbl,
                                           !.via = "fetch"])
             ELSE LSet(p, [lproc[p] EXCEPT !.woff = @ + 1])
          /\ UNCHANGED write_fault
       \/ /\ LSet(p, [lproc[p] EXCEPT !.pc = "ret", !.woff = 0, !.res = lproc[p].tbl,
                                     !.via = "fetch"])
          /\ write_fault' = TRUE
          /\ UNCHANGED pricing_json
    /\ UNCHANGED <<qvars, rvars, svars, bvars, pvars, cvars, unix_now, loads, remote_served,
                   fetch_times>>

\* mutant: the fallback accepts the cache only while it is fresh
load_read_stale_fresh_only(p) ==
    /\ lproc[p].pc = "stale"
    /\ LET c == read_pricing_cache(pricing_json) IN
       IF c # None /\ is_fresh_pricing(unix_now, Unwrap(c))
       THEN LSet(p, [lproc[p] EXCEPT !.pc = "ret", !.res = Unwrap(c).models, !.via = "stale"])
       ELSE LSet(p, [lproc[p] EXCEPT !.pc = "ret", !.res = -1])
    /\ UNCHANGED <<qvars, rvars, svars, bvars, pvars, cvars, pricing_json, unix_now, loads,
                   remote_served, fetch_times, write_fault>>

\* load_pricing, the `_` arm: the cache file whatever its age, or
\* bail!("Failed to fetch pricing and no cache available")
load_read_stale(p) ==
    /\ lproc[p].pc = "stale"
    /\ LET c == read_pricing_cache(pricing_json) IN
       IF c # None
       THEN LSet(p, [lproc[p] EXCEPT !.pc = "ret", !.res = Unwrap(c).models, !.via = "stale"])
       ELSE LSet(p, [lproc[p] EXCEPT !.pc = "ret", !.res = -1])
    /\ UNCHANGED <<qvars, rvars, svars, bvars, pvars, cvars, pricing_json, unix_now, loads,
                   remote_served, fetch_times, write_fault>>

\* generate_statusline: let pricing = PricingFetcher::new(cache_dir)?; then the rest of
\* the render, Ok(format!(..))
statusline_return(p) ==
    /\ lproc[p].pc = "ret"
    /\ LSet(p, [lproc[p] EXCEPT !.pc = "done",
                                !.out = IF lproc[p].res > 0 THEN "statusline" ELSE "error"])
    /\ UNCHANGED <<qvars, rvars, svars, bvars, pvars, cvars, pricing_json, unix_now, loads,
                   remote_served, fetch_times, write_fault>>

\* find_active_block is not running
ScanIdle ==
    /\ log_files = <<>>
    /\ scan_now = 0
    /\ spc = "idle"
    /\ roots_left = 0
    /\ skipped_entries = 0
    /\ file_no = 0
    /\ scanned = <<>>
    /\ processed_hashes = {}
    /\ all_entries = <<>>
    /\ skipped_lines = 0
    /\ scan_fault = ""

QuotaIdle ==
    /\ now = InitNow
    /\ pathIno = 0
    /\ tmpIno = 0
    /\ inoData = [i \in Inodes |-> <<>>]
    /\ inoMtime = [i \in Inodes |-> 0]
    /\ invs = 0
    /\ served = 0
    /\ lastDone = <<0, 0>>
    /\ overlap = TRUE
    /\ readFault = FALSE
    /\ renames = 0
    /\ proc = [p \in Procs |-> IdleProc]

\* find_active_block: all_entries and processed_hashes are empty, claude_paths is given
ScanInit0 ==
    /\ log_files = <<>>
    /\ scan_now = 0
    /\ spc = "roots"
    /\ roots_left \in 1..MaxRoots
    /\ skipped_entries = 0
    /\ file_no = 0
    /\ scanned = <<>>
    /\ processed_hashes = {}
    /\ all_entries = <<>>
    /\ skipped_lines = 0
    /\ scan_fault = ""

ScanFail(why) ==
    /\ spc' = "fail"
    /\ scan_fault' = why

\* for base_path in claude_paths: fs::read_dir(base_path)?; after the last one, the sort
read_root ==
    /\ spc = "roots"
    /\ roots_left > 0
    /\ \/ /\ spc' = "projects"
          /\ roots_left' = roots_left - 1
          /\ UNCHANGED scan_fault
       \/ /\ ScanFail("read_dir root")
          /\ UNCHANGED roots_left
    /\ UNCHANGED <<qvars, rvars, lvars, bvars, pvars, cvars, log_files, scan_now, skipped_entries, file_no, scanned, processed_hashes,
                   all_entries, skipped_lines>>

\* for project_entry in ..: project_entry?, is_dir(), fs::read_dir(&project_dir)?
read_project ==
    /\ spc = "projects"
    /\ \/ /\ spc' = "roots"
          /\ UNCHANGED <<scan_fault, skipped_entries>>
       \/ /\ ScanFail("project entry")
          /\ UNCHANGED skipped_entries
       \/ /\ skipped_entries < MaxSkipped
          /\ skipped_entries' = skipped_entries + 1
          /\ UNCHANGED <<spc, scan_fault>>
       \/ /\ ScanFail("read_dir project")
          /\ UNCHANGED skipped_entries
       \/ /\ spc' = "files"
          /\ UNCHANGED <<scan_fault, skipped_entries>>
    /\ UNCHANGED <<qvars, rvars, lvars, bvars, pvars, cvars, log_files, scan_now, roots_left, file_no, scanned, processed_hashes,
                   all_entries, skipped_lines>>

\* for session_entry in ..: session_entry?, the .jsonl filter, the lookback filter,
\* File::open(&session_file)?
open_session_file ==
    /\ spc = "files"
    /\ \/ /\ spc' = "projects"
          /\ UNCHANGED <<scan_fault, skipped_entries, file_no>>
       \/ /\ ScanFail("session entry")
          /\ UNCHANGED <<skipped_entries, file_no>>
       \/ /\ skipped_entries < MaxSkipped
          /\ skipped_entries' = skipped_entries + 1
          /\ UNCHANGED <<spc, scan_fault, file_no>>
       \/ \E age_hours \in {FILE_LOOKBACK_HOURS, FILE_LOOKBACK_HOURS + 1} :
            IF OutsideLookback(age_hours)
            THEN /\ skipped_entries < MaxSkipped
                 /\ skipped_entries' = skipped_entries + 1
                 /\ UNCHANGED <<spc, scan_fault, file_no>>
            ELSE /\ file_no < MaxFiles
                 /\ \/ /\ spc' = "lines"
                       /\ file_no' = file_no + 1
                       /\ UNCHANGED <<scan_fault, skipped_entries>>
                    \/ /\ ScanFail("File::open")
                       /\ UNCHANGED <<skipped_entries, file_no>>
    /\ UNCHANGED <<qvars, rvars, lvars, bvars, pvars, cvars, log_files, scan_now, roots_left, scanned, processed_hashes, all_entries,
                   skipped_lines>>

\* for line in reader.lines(): line?, blank lines, serde_json::from_str::<UsageData>,
\* the dedup hash, all_entries.push(entry)
read_line ==
    /\ spc = "lines"
    /\ \/ /\ spc' = "files"
          /\ UNCHANGED <<scan_fault, scanned, processed_hashes, all_entries, skipped_lines>>
       \/ /\ ScanFail("read line")
          /\ UNCHANGED <<scanned, processed_hashes, all_entries, skipped_lines>>
       \/ /\ skipped_lines < MaxSkipped
          /\ skipped_lines' = skipped_lines + 1
          /\ UNCHANGED <<spc, scan_fault, scanned, processed_hashes, all_entries>>
       \/ /\ Len(scanned) < MaxLines
          /\ \E entry \in ScanLines :
               LET dup == HasHash(entry) /\ HashOf(entry) \in processed_hashes IN
               /\ processed_hashes' = IF HasHash(entry)
                                       THEN processed_hashes \cup {HashOf(entry)}
                                       ELSE processed_hashes
               /\ all_entries' = IF dup THEN all_entries ELSE Append(all_entries, entry)
               /\ scanned' = Append(scanned,
                                    [entry |-> entry, file |-> file_no, kept |-> ~dup])
          /\ UNCHANGED <<spc, scan_fault, skipped_lines>>
    /\ UNCHANGED <<qvars, rvars, lvars, bvars, pvars, cvars, log_files, scan_now, roots_left, skipped_entries, file_no>>

\* all_entries.sort_by(..), then the entries are handed to group_into_blocks
sort_entries ==
    /\ spc = "roots"
    /\ roots_left = 0
    /\ spc' = "group"
    /\ all_entries' = SortByTimestamp(all_entries)
    /\ UNCHANGED <<qvars, rvars, lvars, bvars, pvars, cvars, log_files, scan_now, roots_left, skipped_entries, file_no, scanned,
                   processed_hashes, skipped_lines, scan_fault>>

\* ============================================ Billing-Window Aggregator (blocks.rs)
ZoneOffset(zone) == IF zone = "+02:00" THEN 2 * HOUR_MS ELSE 0

\* DateTime::parse_from_rfc3339(&entry.timestamp) then with_timezone(&Utc): the instant
\* in ms, None when the string has no zone designator
parse_from_rfc3339(ts) ==
    IF ts.zone = "" THEN None ELSE Some(ts.local - ZoneOffset(ts.zone))

\* mutant: the block starts at the entry's own time
floor_to_hour_identity(timestamp) == timestamp

\* floor_to_hour: with_minute(0), with_second(0), with_nanosecond(0)
floor_to_hour(timestamp) == timestamp - (timestamp % HOUR_MS)

\* mutant: the duration is computed in seconds and compared with milliseconds
session_duration_ms_in_seconds == BLOCK_DURATION_HOURS * 60 * 60

\* let session_duration_ms = BLOCK_DURATION_HOURS * 60 * 60 * 1000
session_duration_ms == BLOCK_DURATION_HOURS * 60 * 60 * 1000

\* mutant: a gap equal to the duration closes the block
should_close_block_at_equal(time_since_block_start, time_since_last) ==
    time_since_block_start >= session_duration_ms \/ time_since_last >= session_duration_ms

\* mutant: only the gap from the previous entry is tested
should_close_block_last_only(time_since_block_start, time_since_last) ==
    time_since_last > session_duration_ms

\* time_since_block_start > session_duration_ms || time_since_last > session_duration_ms
should_close_block(time_since_block_start, time_since_last) ==
    time_since_block_start > session_duration_ms \/ time_since_last > session_duration_ms

Block(start_time, end_time, cost_usd, total_tokens, is_active) ==
    [start_time |-> start_time, end_time |-> end_time, cost_usd |-> cost_usd,
     total_tokens |-> total_tokens, is_active |-> is_active]

RECURSIVE CostOf(_, _, _)
\* for entry in entries { cost_usd += pricing.calculate_entry_cost(entry) }
CostOf(entries, table, order) ==
    IF entries = <<>> THEN 0
    ELSE CostOf(SubSeq(entries, 1, Len(entries) - 1), table, order)
             + calculate_entry_cost(table, order, entries[Len(entries)])

RECURSIVE TokensOf_all_categories(_)
\* mutant: the cache tokens are counted too
TokensOf_all_categories(entries) ==
    IF entries = <<>> THEN 0
    ELSE TokensOf_all_categories(SubSeq(entries, 1, Len(entries) - 1))
             + entries[Len(entries)].usage.input_tokens
             + entries[Len(entries)].usage.output_tokens
             + entries[Len(entries)].usage.cache_creation_input_tokens
             + entries[Len(entries)].usage.cache_read_input_tokens

RECURSIVE TokensOf(_)
\* total_tokens += input_tokens + output_tokens
TokensOf(entries) ==
    IF entries = <<>> THEN 0
    ELSE TokensOf(SubSeq(entries, 1, Len(entries) - 1))
             + entries[Len(entries)].usage.input_tokens
             + entries[Len(entries)].usage.output_tokens

\* mutant: a block counts as active whenever its last entry is recent
create_block_from_entries_recent(start_time, entries, t, table, order) ==
    LET end_time == start_time + session_duration_ms
        actual_end_time ==
            IF entries # <<>> /\ parse_from_rfc3339(entries[Len(entries)].timestamp) # None
            THEN Unwrap(parse_from_rfc3339(entries[Len(entries)].timestamp))
            ELSE start_time
        time_since_last_activity == t - actual_end_time
        is_active == time_since_last_activity < session_duration_ms
    IN  Block(start_time, end_time, CostOf(entries, table, order), TokensOf(entries), is_active)

\* create_block_from_entries: end_time, actual_end_time, is_active, cost and tokens
create_block_from_entries(start_time, entries, t, table, order) ==
    LET end_time == start_time + session_duration_ms
        actual_end_time ==
            IF entries # <<>> /\ parse_from_rfc3339(entries[Len(entries)].timestamp) # None
            THEN Unwrap(parse_from_rfc3339(entries[Len(entries)].timestamp))
            ELSE start_time
        time_since_last_activity == t - actual_end_time
        is_active == time_since_last_activity < session_duration_ms /\ t < end_time
    IN  Block(start_time, end_time, CostOf(entries, table, order), TokensOf(entries), is_active)

RECURSIVE LastActiveAnyEnd(_, _, _)
\* mutant: the end of the block is not compared with now
LastActiveAnyEnd(bs, i, t) ==
    IF i = 0 THEN 0
    ELSE IF bs[i].is_active THEN i
    ELSE LastActiveAnyEnd(bs, i - 1, t)

RECURSIVE LastActive(_, _, _)

\* for block in blocks.iter().rev(): the index of the first block with
\* block.is_active && block.end_time > now, 0 when there is none
LastActive(bs, i, t) ==
    IF i = 0 THEN 0
    ELSE IF bs[i].is_active /\ bs[i].end_time > t THEN i
    ELSE LastActive(bs, i - 1, t)

BlockIdle ==
    /\ gi = 0
    /\ current_block_start = None
    /\ current_block_entries = <<>>
    /\ blocks = <<>>
    /\ assigned = <<>>
    /\ group_now = 0
    /\ query_now = 0
    /\ result = None
    /\ run = 0
    /\ prev_blocks = <<>>

MINUTE_MS == 60 * 1000

\* timestamps of the entries: 09:00, 09:30, 14:00, 14:00:01, 14:30 and 14:59 UTC,
\* 10:00 at +02:00 (08:00 UTC), and 09:00 with no zone designator
BlockStamps ==
    {Timestamp(l, "Z") : l \in {0, 30 * MINUTE_MS, 5 * HOUR_MS, 5 * HOUR_MS + 1000,
                                 5 * HOUR_MS + 30 * MINUTE_MS, 5 * HOUR_MS + 59 * MINUTE_MS}}
        \cup {Timestamp(HOUR_MS, "+02:00"), Timestamp(0, "")}

BlockModels == {None, Some(<<"c", "d">>)}

\* every entry has tokens of all four categories
BlockUsage == UsageTokens(1, 2, 4, 8)

BlockEntries == {UsageData(ts, None, None, m, BlockUsage) : ts \in BlockStamps, m \in BlockModels}

\* a pricing table with two keys that differ only in case
BlockTable ==
    (<<"c", "D">> :> ModelPricing(<<Some(1), None, None, None>>, <<None, None, None, None>>))
        @@ (<<"C", "d">> :> ModelPricing(<<Some(2), None, None, None>>, <<None, None, None, None>>))

\* instants at which the clock is read: 13:00, 15:00, 20:00 and 21:01
NowSet == {4 * HOUR_MS, 6 * HOUR_MS, 11 * HOUR_MS, 12 * HOUR_MS + MINUTE_MS}
QuerySet == NowSet \cup {t + 2 * HOUR_MS : t \in NowSet}

Sorted(entries) ==
    \A i \in 1..(Len(entries) - 1) : StrLeq(entries[i].timestamp, entries[i + 1].timestamp)

\* find_active_block after the scan and the sort: all_entries is ordered by timestamp
\* string, nothing has been grouped yet
BlockInit0 ==
    /\ log_files = <<>>
    /\ scan_now = 0
    /\ spc = "group"
    /\ roots_left = 0
    /\ skipped_entries = 0
    /\ file_no = 1
    /\ \E n \in 0..MaxLines : \E es \in [1..n -> BlockEntries] :
          /\ Sorted(es)
          /\ all_entries = es
          /\ scanned = [i \in 1..n |-> [entry |-> es[i], file |-> 1, kept |-> TRUE]]
    /\ processed_hashes = {}
    /\ skipped_lines = 0
    /\ scan_fault = ""
    /\ gi = 0
    /\ current_block_start = None
    /\ current_block_entries = <<>>
    /\ blocks = <<>>
    /\ assigned = <<>>
    /\ group_now = 0
    /\ query_now = 0
    /\ result = None
    /\ run = 1
    /\ prev_blocks = <<>>
    /\ models = BlockTable
    /\ iter_order \in Orders(DOMAIN BlockTable)

\* group_into_blocks: the empty case, session_duration_ms, let now = Utc::now()
group_start ==
    /\ spc = "group"
    /\ IF all_entries = <<>>
       THEN spc' = "select" /\ UNCHANGED group_now
       ELSE spc' = "loop" /\ group_now' \in NowSet /\ group_now' >= scan_now
    /\ UNCHANGED <<qvars, rvars, lvars, pvars, cvars, log_files, scan_now, roots_left, skipped_entries, file_no, scanned,
                   processed_hashes, all_entries, skipped_lines, scan_fault, gi,
                   current_block_start, current_block_entries, blocks, assigned, query_now,
                   result, run, prev_blocks>>

\* group_into_blocks: one iteration of `for entry in entries`
group_entry ==
    /\ spc = "loop"
    /\ gi < Len(all_entries)
    /\ gi' = gi + 1
    /\ LET entry == all_entries[gi + 1]
           parsed == parse_from_rfc3339(entry.timestamp)
       IN IF parsed = None
          THEN /\ ScanFail("timestamp")
               /\ UNCHANGED <<current_block_start, current_block_entries, blocks, assigned>>
          ELSE LET entry_time == Unwrap(parsed) IN
               /\ UNCHANGED <<spc, scan_fault>>
               /\ IF current_block_start = None
                  THEN /\ current_block_start' = Some(floor_to_hour(entry_time))
                       /\ current_block_entries' = <<entry>>
                       /\ UNCHANGED <<blocks, assigned>>
                  ELSE LET start == Unwrap(current_block_start)
                           last == current_block_entries[Len(current_block_entries)]
                           last_time == Unwrap(parse_from_rfc3339(last.timestamp))
                       IN IF should_close_block(entry_time - start, entry_time - last_time)
                          THEN /\ blocks' = Append(blocks,
                                      create_block_from_entries(start, current_block_entries,
                                                                group_now, models, iter_order))
                               /\ assigned' = Append(assigned, current_block_entries)
                               /\ current_block_start' = Some(floor_to_hour(entry_time))
                               /\ current_block_entries' = <<entry>>
                          ELSE /\ current_block_entries' = Append(current_block_entries, entry)
                               /\ UNCHANGED <<current_block_start, blocks, assigned>>
    /\ UNCHANGED <<qvars, rvars, lvars, pvars, cvars, log_files, scan_now, roots_left, skipped_entries, file_no, scanned,
                   processed_hashes, all_entries, skipped_lines, group_now, query_now, result,
                   run, prev_blocks>>

\* group_into_blocks: close the last block, Ok(blocks)
close_last_block ==
    /\ spc = "loop"
    /\ gi = Len(all_entries)
    /\ spc' = "select"
    /\ IF current_block_start # None /\ current_block_entries # <<>>
       THEN /\ blocks' = Append(blocks,
                   create_block_from_entries(Unwrap(current_block_start),
                                             current_block_entries, group_now, models,
                                             iter_order))
            /\ assigned' = Append(assigned, current_block_entries)
       ELSE UNCHANGED <<blocks, assigned>>
    /\ current_block_start' = None
    /\ current_block_entries' = <<>>
    /\ UNCHANGED <<qvars, rvars, lvars, pvars, cvars, log_files, scan_now, roots_left, skipped_entries, file_no, scanned,
                   processed_hashes, all_entries, skipped_lines, scan_fault, gi, group_now,
                   query_now, result, run, prev_blocks>>

\* find_active_block: let now = Utc::now(), the reverse scan of blocks, the empty block
select_active_block ==
    /\ spc = "select"
    /\ spc' = "done"
    /\ \E t \in QuerySet :
          /\ t >= group_now
          /\ t >= scan_now
          /\ query_now' = t
          /\ LET i == LastActive(blocks, Len(blocks), t) IN
             result' = IF i # 0
                       THEN Some(Block(blocks[i].start_time, blocks[i].end_time,
                                       blocks[i].cost_usd, blocks[i].total_tokens, TRUE))
                       ELSE Some(Block(t, t + BLOCK_DURATION_HOURS * HOUR_MS, 0, 0, FALSE))
    /\ UNCHANGED <<qvars, rvars, lvars, pvars, cvars, log_files, scan_now, roots_left, skipped_entries, file_no, scanned,
                   processed_hashes, all_entries, skipped_lines, scan_fault, gi,
                   current_block_start, current_block_entries, blocks, assigned, group_now,
                   run, prev_blocks>>

\* the aggregator runs once more on the same entries and the same pricing table, with a
\* PricingFetcher of its own (another process, or another instance in this one)
run_again ==
    /\ spc = "done"
    /\ run = 1
    /\ run' = 2
    /\ prev_blocks' = blocks
    /\ spc' = "group"
    /\ gi' = 0
    /\ blocks' = <<>>
    /\ assigned' = <<>>
    /\ group_now' = 0
    /\ query_now' = 0
    /\ result' = None
    /\ iter_order' \in Orders(DOMAIN models)
    /\ UNCHANGED <<qvars, rvars, lvars, cvars, log_files, scan_now, roots_left, skipped_entries, file_no, scanned,
                   processed_hashes, all_entries, skipped_lines, scan_fault,
                   current_block_start, current_block_entries, models>>

\* ------------------------------------------- the scan of a given usage log
\* a session file: its modification time in seconds and its lines, each a UsageData
LogFile(mtime, lines) == [mtime |-> mtime, lines |-> lines]

\* file_cutoff_time = now - Duration::hours(FILE_LOOKBACK_HOURS), .timestamp() (seconds)
file_cutoff_timestamp(t) == (t - FILE_LOOKBACK_HOURS * HOUR_MS) \div 1000

RECURSIVE read_lines(_, _)
\* for line in reader.lines(): the dedup hash, all_entries.push(entry);
\* acc is [processed_hashes, all_entries]
read_lines(lines, acc) ==
    IF lines = <<>> THEN acc
    ELSE LET entry == Head(lines)
             dup == HasHash(entry) /\ HashOf(entry) \in acc.processed_hashes
         IN read_lines(Tail(lines),
                [processed_hashes |-> IF HasHash(entry)
                                      THEN acc.processed_hashes \cup {HashOf(entry)}
                                      ELSE acc.processed_hashes,
                 all_entries |-> IF dup THEN acc.all_entries
                                 ELSE Append(acc.all_entries, entry)])

RECURSIVE read_session_files(_, _, _)
\* for session_entry in ..: a file whose modification time is before the cutoff is
\* passed over, every other file is read line by line
read_session_files(files, cutoff, acc) ==
    IF files = <<>> THEN acc
    ELSE read_session_files(Tail(files), cutoff,
            IF Head(files).mtime < cutoff THEN acc
            ELSE read_lines(Head(files).lines, acc))

\* events at 09:00, 13:30 and 17:00 UTC
LookbackStamps == {Timestamp(l, "Z") : l \in {0, 4 * HOUR_MS + 30 * MINUTE_MS, 8 * HOUR_MS}}

LookbackEntries == {UsageData(ts, None, None, None, BlockUsage) : ts \in LookbackStamps}

\* modification times 09:00, 13:30 and 17:00, in seconds
LookbackMtimes == {0, (4 * HOUR_MS + 30 * MINUTE_MS) \div 1000, (8 * HOUR_MS) \div 1000}

LookbackFiles ==
    {LogFile(m, ls) : m \in LookbackMtimes,
                      ls \in UNION {[1..n -> LookbackEntries] : n \in 0..2}}

\* a usage log of one or two session files, all readable; find_active_block is called
LookbackInit0 ==
    /\ log_files \in UNION {[1..n -> LookbackFiles] : n \in 1..MaxFiles}
    /\ scan_now = 0
    /\ spc = "scan"
    /\ roots_left = 1
    /\ skipped_entries = 0
    /\ file_no = 0
    /\ scanned = <<>>
    /\ processed_hashes = {}
    /\ all_entries = <<>>
    /\ skipped_lines = 0
    /\ scan_fault = ""
    /\ BlockIdle
    /\ models = BlockTable
    /\ iter_order \in Orders(DOMAIN BlockTable)

\* find_active_block up to the sort: let now = Utc::now(), the cutoff, the loops over
\* the session files and their lines, all_entries.sort_by(..)
scan_log_files ==
    /\ spc = "scan"
    /\ \E t \in NowSet :
          LET acc == read_session_files(log_files, file_cutoff_timestamp(t),
                                        [processed_hashes |-> {}, all_entries |-> <<>>])
          IN /\ scan_now' = t
             /\ processed_hashes' = acc.processed_hashes
             /\ all_entries' = SortByTimestamp(acc.all_entries)
    /\ spc' = "group"
    /\ roots_left' = 0
    /\ run' = 1
    /\ UNCHANGED <<qvars, rvars, lvars, pvars, cvars, log_files, skipped_entries, file_no,
                   scanned, skipped_lines, scan_fault, gi, current_block_start,
                   current_block_entries, blocks, assigned, group_now, query_now, result,
                   prev_blocks>>

BlockInit == QuotaIdle /\ RenderInit0 /\ BlockInit0 /\ CostIdle /\ LoadIdle

BlockNext ==
    \/ group_start
    \/ group_entry
    \/ close_last_block
    \/ select_active_block
    \/ run_again

BlockSpec == BlockInit /\ [][BlockNext]_vars

LookbackInit == QuotaIdle /\ RenderInit0 /\ LookbackInit0 /\ CostIdle /\ LoadIdle

LookbackNext ==
    \/ scan_log_files
    \/ group_start
    \/ group_entry
    \/ close_last_block
    \/ select_active_block

LookbackSpec == LookbackInit /\ [][LookbackNext]_vars

CostInit == QuotaIdle /\ RenderInit0 /\ ScanIdle /\ BlockIdle /\ CostInit0 /\ LoadIdle

CostNext ==
    \/ cost_from_table
    \/ cost_from_fallback

CostSpec == CostInit /\ [][CostNext]_vars

LoadInit == QuotaIdle /\ RenderInit0 /\ ScanIdle /\ BlockIdle /\ PricingIdle /\ CostIdle /\ LoadInit0

LoadNext ==
    \/ pricing_clock
    \/ \E p \in Procs : PricingFetcher_new(p)
    \/ \E p \in Procs : load_read_cache(p)
    \/ \E p \in Procs : load_http_get(p)
    \/ \E p \in Procs : load_write_open(p)
    \/ \E p \in Procs : load_write_chunk(p)
    \/ \E p \in Procs : load_read_stale(p)
    \/ \E p \in Procs : statusline_return(p)

LoadSpec == LoadInit /\ [][LoadNext]_vars

ResolveInit == QuotaIdle /\ RenderInit0 /\ ScanIdle /\ BlockIdle /\ LoadIdle /\ ResolveInit0

ResolveNext ==
    \/ cost_from_table
    \/ cost_from_fallback

ResolveSpec == ResolveInit /\ [][ResolveNext]_vars

ScanInit == QuotaIdle /\ RenderInit0 /\ ScanInit0 /\ BlockIdle /\ PricingIdle /\ CostIdle /\ LoadIdle

ScanNext ==
    \/ read_root
    \/ read_project
    \/ open_session_file
    \/ read_line
    \/ sort_entries

ScanSpec == ScanInit /\ [][ScanNext]_vars

RenderInit == QuotaIdle /\ RenderInit0 /\ ScanIdle /\ BlockIdle /\ PricingIdle /\ CostIdle /\ LoadIdle

RenderNext ==
    \/ Tick
    \/ \E k \in Keys : touch_transcript(k)
    \/ \E p \in Procs : main_start(p)
    \/ \E p \in Procs : try_get_open(p)
    \/ \E p \in Procs : try_lock_shared(p)
    \/ \E p \in Procs : try_get_read(p)
    \/ \E p \in Procs : try_get_check(p)
    \/ \E p \in Procs : generate_statusline(p)
    \/ \E p \in Procs : update_open(p)
    \/ \E p \in Procs : lock_exclusive(p)
    \/ \E p \in Procs : update_stat(p)
    \/ \E p \in Procs : update_write(p)
    \/ \E p \in Procs : update_unlock(p)

RenderSpec == RenderInit /\ [][RenderNext]_vars

\* main is started again and again: the status line is rendered for as long as the
\* sessions live, so the number of invocations is not bounded here
main_again(p) ==
    /\ rproc[p].pc \in {"idle", "done", "fail"}
    /\ \/ \E k \in Keys : RSet(p, [IdleRender EXCEPT !.pc = "gopen", !.key = k])
       \/ RSet(p, [IdleRender EXCEPT !.pc = "fail", !.err = "main"])
    /\ UNCHANGED <<xvars, qvars, rfile, transcript, touches, lastPut, puts>>

\* the steps of a render invocation that never wait: everything but the start of main
\* and the blocking lock_exclusive
RenderRunning(p) ==
    \/ try_get_open(p)
    \/ try_lock_shared(p)
    \/ try_get_read(p)
    \/ try_get_check(p)
    \/ generate_statusline(p)
    \/ update_open(p)
    \/ update_stat(p)
    \/ update_write(p)
    \/ update_unlock(p)

\* file.lock_exclusive() returns with the lock: flock(LOCK_EX) is granted when no other
\* open file holds a lock at the moment the waiter runs; a pending request does not
\* keep try_lock_shared of another process from succeeding
ExclusiveGranted(p) == lock_exclusive(p) /\ rproc'[p].held = "ex"

RenderFairNext ==
    \/ \E p \in Procs : main_again(p)
    \/ \E p \in Procs : RenderRunning(p)
    \/ \E p \in Procs : lock_exclusive(p)

\* fair scheduling of the render cache with the clock standing still: a process that
\* can run does run (so every lock holder releases), and a waiter whose exclusive lock
\* stays grantable gets it; whether main is started again is left open
RenderFairSpec ==
    /\ RenderInit
    /\ [][RenderFairNext]_vars
    /\ \A p \in Procs : WF_vars(RenderRunning(p)) /\ WF_vars(ExclusiveGranted(p))

Init == QuotaInit /\ RenderInit0 /\ ScanIdle /\ BlockIdle /\ PricingIdle /\ CostIdle /\ LoadIdle

Next ==
    \/ Tick
    \/ \E p \in Procs : get_api_cache_path(p)
    \/ \E p \in Procs : open_cache(p)
    \/ \E p \in Procs : try_lock_exclusive(p)
    \/ \E p \in Procs : check_freshness(p)
    \/ \E p \in Procs : read_fresh_cache(p)
    \/ \E p \in Procs : fetch_api_request(p)
    \/ \E p \in Procs : fetch_api_response(p)
    \/ \E p \in Procs : fs_write_open(p)
    \/ \E p \in Procs : fs_write_chunk(p)
    \/ \E p \in Procs : fs_rename(p)
    \/ \E p \in Procs : lock_shared(p)
    \/ \E p \in Procs : read_shared(p)
    \/ \E p \in Procs : unlock(p)
    \/ \E p \in Procs : fetch_usage(p)

Spec == Init /\ [][Next]_vars

\* no quota fetch has run and the quota cache file does not exist
QuotaUntouched == proc = [p \in Procs |-> IdleProc] /\ pathIno = 0

\* no render has run, no render cache file exists
RenderUntouched ==
    /\ rproc = [p \in Procs |-> IdleRender]
    /\ touches = 0
    /\ \A k \in Keys : ~rfile[k].exists

\* both lock-protected caches: the quota cache and the render caches share no file and
\* no lock, and a behaviour runs the invocations of one of them
LockNext ==
    \/ RenderUntouched /\ Next
    \/ QuotaUntouched /\ RenderNext

LockSpec == Init /\ [][LockNext]_vars

\* the steps of an invocation that wait for nothing: every call returns
Running(p) ==
    \/ open_cache(p)
    \/ try_lock_exclusive(p)
    \/ check_freshness(p)
    \/ read_fresh_cache(p)
    \/ fetch_api_request(p)
    \/ fetch_api_response(p)
    \/ fs_write_open(p)
    \/ fs_write_chunk(p)
    \/ fs_rename(p)
    \/ read_shared(p)
    \/ unlock(p)
    \/ fetch_usage(p)

\* lock_shared returns with the lock: possible once no other open file holds the
\* exclusive lock
SharedGranted(p) == lock_shared(p) /\ proc'[p].held = "sh"

\* the invocations alone: no step of an invocation waits for the clock, which stands
\* still here
FairNext ==
    \/ \E p \in Procs : get_api_cache_path(p)
    \/ \E p \in Procs : Running(p)
    \/ \E p \in Procs : lock_shared(p)

\* fair scheduling: a process that can run does run, network calls return, and a
\* waiter gets the shared lock once it is free (the invocations are bounded, so the
\* lock cannot be taken away from a waiter again and again)
FairSpec ==
    /\ Init
    /\ [][FairNext]_vars
    /\ \A p \in Procs : WF_vars(Running(p)) /\ WF_vars(SharedGranted(p))

\* C1: concurrent invocations on a stale or empty cache: no two of them are inside the
\* fetch-and-write section at once, and while the clock has not advanced (so nothing
\* written can have expired) and no read failed, the invocations that all started
\* before any of them returned complete at most one network fetch and cache write.
C1_SingleFlight ==
    /\ \A p, q \in Procs : p # q => ~(InSection(p) /\ InSection(q))
    /\ (overlap /\ ~readFault /\ now = InitNow) => renames <= 1

\* C2: an invocation that lost the non-blocking exclusive lock to an invocation whose
\* fetch and write succeeded returns, once its own calls succeed, the snapshot that
\* invocation wrote: not an older one, not an error.
C2_ContenderReadsFreshWrite ==
    \A p \in Procs :
        (proc[p].pc = "ret" /\ proc[p].contended /\ proc[p].expect # 0 /\ proc[p].res # -2)
            => proc[p].res = proc[p].expect

\* C3: whatever non-empty content a reader finds in the cache file (through the path or
\* through a file it opened from the path earlier) parses as one complete snapshot.
C3_NoTornRead ==
    \A i \in ({pathIno} \cup {proc[p].fd : p \in Procs}) \ {0} :
        inoData[i] = <<>> \/ Parse(inoData[i]) # 0

\* C4: an invocation whose try_lock_exclusive met contention makes no network call: it
\* only waits for the shared lock, reads, unlocks and returns.
C4_ContenderNeverFetches ==
    \A p \in Procs :
        proc[p].contended =>
            /\ proc[p].net = 0
            /\ proc[p].pc \in {"swait", "sread", "unlock", "ret"}
            /\ proc[p].resp = 0 /\ proc[p].wrote = 0

C4_Witness ==
    \E p \in Procs : proc[p].pc = "ret" /\ proc[p].contended /\ proc[p].res > 0

\* C5: an invocation that started after a fetch-and-write invocation had returned, and
\* that returns less than 30 s after that write, returns the written snapshot without a
\* network call; an invocation that finds the cache 30 s old or older under the
\* exclusive lock performs the network fetch.
C5_FreshCacheServed ==
    /\ \A p \in Procs :
         (/\ proc[p].pc = "ret"
          /\ proc[p].basis[1] # 0
          /\ IsFresh(proc[p].basis[2], now)
          /\ proc[p].res # -2
          /\ proc[p].why # "ioerr")
            => (proc[p].res = proc[p].basis[1] /\ proc[p].net = 0)
    /\ \A p \in Procs :
         (proc[p].why = "stale" /\ proc[p].pc \in {"unlock", "ret"} /\ proc[p].res # -2)
            => proc[p].net = 1

\* C11: when the network fetch of an invocation fails while the cache file holds a
\* parseable snapshot older than the TTL, the invocation's result is that snapshot.
C11_NetworkFailureFallsBack ==
    [][\A p \in Procs :
          (/\ proc[p].pc = "net"
           /\ proc'[p].pc = "unlock"
           /\ served' = served
           /\ pathIno # 0
           /\ proc[p].fd = pathIno
           /\ Parse(inoData[pathIno]) # 0
           /\ ~IsFresh(inoMtime[pathIno], now))
              => proc'[p].res = Parse(inoData[pathIno])
      ]_vars

TryGetStep(p) ==
    LET k == rproc[p].key
        s == ParseSemaphore(rproc[p].buf)
        valid == /\ s # NoRec
                 /\ now - s.time < 30
                 /\ transcript[k].mtime = s.mtime
    IN  /\ (~rproc[p].hit /\ rproc'[p].hit) =>
              /\ rproc[p].pc = "gcheck"
              /\ rfile[k].exists
              /\ rproc[p].held = "sh"
              /\ ~RExHeldByOther(p)
              /\ valid
              /\ rproc'[p].printed = s.text
        /\ (rproc[p].pc = "gcheck" /\ rproc'[p].pc # "gcheck" /\ ~valid) =>
              (~rproc'[p].hit /\ rproc'[p].pc \in {"gen", "fail"})
        /\ (rproc[p].pc = "glock" /\ rproc'[p].pc # "glock" /\ RExHeldByOther(p)) =>
              rproc'[p].pc = "gen"
        /\ (rproc[p].pc = "gopen" /\ rproc'[p].pc # "gopen" /\ ~rfile[k].exists) =>
              rproc'[p].pc = "gen"
        /\ rproc'[p].err = "try_get_cached" => rproc[p].pc \in {"gread", "gcheck", "fail"}

\* C6 (amended): try_get_cached returns a text only when the file exists, the shared
\* lock was taken without waiting while no writer holds the exclusive lock, the record
\* parses, its age is below 30 s (exactly 30 s is a miss) and the transcript's
\* modification time equals the recorded one; otherwise it returns no text: nothing,
\* or an error when reading the file or the transcript's modification time fails.
\* It never waits for the lock.
C6_TryGetSound ==
    /\ [](\A p \in Procs : rproc[p].pc = "glock" => ENABLED try_lock_shared(p))
    /\ [][\A p \in Procs : TryGetStep(p)]_vars

C6_Witness ==
    \E p \in Procs : rproc[p].pc = "done" /\ rproc[p].hit

\* C6 (as claimed): in every case but a hit try_get_cached returns nothing, so it never
\* ends with an error.
C6_AlwaysNothingOrText ==
    \A p \in Procs : rproc[p].err # "try_get_cached"

\* C7: a try_get_cached that follows a completed update_cache(key, file, text) by less
\* than 30 s, with the transcript's modification time unchanged and no other
\* update_cache on the key in between, returns exactly that text (unless one of its own
\* calls fails); and a step of one key's update_cache changes no other key's file.
C7_PutThenGet ==
    [][/\ \A p \in Procs :
            LET R == lastPut[rproc[p].key] IN
            (/\ rproc[p].pc = "gcheck"
             /\ rproc'[p].pc # "gcheck"
             /\ rproc'[p].pc # "fail"
             /\ R # NoRec
             /\ now - R.time < 30
             /\ transcript[rproc[p].key].mtime = R.mtime)
                => (rproc'[p].hit /\ rproc'[p].printed = R.text)
       /\ \A k \in Keys :
            rfile'[k] # rfile[k] =>
                \E p \in Procs : /\ rproc[p].key = k
                                 /\ rproc[p].pc \in {"uopen", "uwrite"}
                                 /\ rproc'[p] # rproc[p]
      ]_vars

C7_Witness ==
    \E p \in Procs :
        /\ rproc[p].pc = "done" /\ rproc[p].hit
        /\ lastPut[rproc[p].key] # NoRec
        /\ rproc[p].printed = lastPut[rproc[p].key].text

\* C8: no reader of the render cache file observes an empty, truncated or half-written
\* record: what try_get_cached reads under its shared lock is one complete record.
C8_ReaderSeesCompleteRecord ==
    \A p \in Procs : rproc[p].pc = "gcheck" => ParseSemaphore(rproc[p].buf) # NoRec

\* C9: for one session key at most one process at a time is between a render-cache
\* miss and the following put (computing a fresh statusline).
Computing(p) == rproc[p].pc \in {"gen", "uopen"}

C9_SingleComputePerKey ==
    \A p, q \in Procs :
        (p # q /\ rproc[p].key = rproc[q].key) => ~(Computing(p) /\ Computing(q))

\* ========================================================== Usage-Log Scan
SamePair(a, b) == a.id = b.id /\ a.request_id = b.request_id

KeptEntries == SelectSeq(scanned, LAMBDA r : r.kept)

\* C16: of the parsed events that share one (message id, request id) pair exactly the
\* first in scan order is collected for the aggregator, whatever file it came from; an
\* event that misses one of the two ids is always collected.
C16_DedupByPair ==
    /\ \A i \in 1..Len(scanned) :
          scanned[i].kept <=>
              ~(/\ HasHash(scanned[i].entry)
                /\ \E j \in 1..(i - 1) : SamePair(scanned[j].entry, scanned[i].entry))
    /\ Len(all_entries) = Len(KeptEntries)
    /\ \A i \in 1..Len(KeptEntries) :
          \E j \in 1..Len(all_entries) : all_entries[j] = KeptEntries[i].entry

\* C18: a usage-log file that cannot be opened or read never makes find_active_block
\* fail.
C18_UnreadableFileIsSkipped ==
    scan_fault \notin {"File::open", "read line"}

\* ================================================== Billing-Window Aggregator
\* the instant of an entry the loop has accepted
TimeOf(entry) == Unwrap(parse_from_rfc3339(entry.timestamp))

\* the loop takes an entry with a parseable timestamp while a block is open
TakesEntryIntoOpenBlock ==
    /\ spc = "loop"
    /\ gi' = gi + 1
    /\ current_block_start # None
    /\ parse_from_rfc3339(all_entries[gi + 1].timestamp) # None

AppendsEntry == current_block_entries' = Append(current_block_entries, all_entries[gi + 1])

OpensNewBlock ==
    /\ Len(blocks') = Len(blocks) + 1
    /\ current_block_entries' = <<all_entries[gi + 1]>>

\* C12 (as claimed): an entry exactly 5 h after the first event of the open window is
\* appended to that window, and an entry 5 h and 1 s after it starts a new window.
C12_ExactDurationFromFirstEvent ==
    [][TakesEntryIntoOpenBlock =>
         LET t0 == TimeOf(current_block_entries[1])
             t == TimeOf(all_entries[gi + 1])
         IN /\ t = t0 + 5 * HOUR_MS => AppendsEntry
            /\ t = t0 + 5 * HOUR_MS + 1000 => OpensNewBlock
      ]_vars

\* C12 (amended): the 5 hours count from the window's start, the hour floor of its first
\* event: an entry exactly 5 h after the start whose gap to the previous entry is at
\* most 5 h is appended, an entry 5 h and 1 s after the start (or after the first
\* event) starts a new window; an entry exactly 5 h after the previous one never closes
\* the window by its gap.
C12_ExactDurationFromStart ==
    [][TakesEntryIntoOpenBlock =>
         LET start == Unwrap(current_block_start)
             t0 == TimeOf(current_block_entries[1])
             last == TimeOf(current_block_entries[Len(current_block_entries)])
             t == TimeOf(all_entries[gi + 1])
         IN /\ (t - start <= 5 * HOUR_MS /\ t - last <= 5 * HOUR_MS) => AppendsEntry
            /\ t = start + 5 * HOUR_MS + 1000 => OpensNewBlock
            /\ (t = t0 + 5 * HOUR_MS + 1000 /\ t0 >= start) => OpensNewBlock
            /\ (t = t0 + 5 * HOUR_MS /\ t0 = start /\ t - last <= 5 * HOUR_MS) => AppendsEntry
      ]_vars

C12_Witness ==
    /\ spc = "select"
    /\ Len(assigned) = 2
    /\ Len(assigned[1]) = 2
    /\ TimeOf(assigned[1][2]) = blocks[1].start_time + 5 * HOUR_MS
    /\ TimeOf(assigned[2][1]) = blocks[1].start_time + 5 * HOUR_MS + 1000

\* C13: every produced window starts on the hour, at or before its first entry and less
\* than an hour before it, and ends exactly 5 hours after its start.
C13_HourFlooredFiveHourWindows ==
    /\ Len(assigned) = Len(blocks)
    /\ \A i \in 1..Len(blocks) :
          LET first == TimeOf(assigned[i][1]) IN
          /\ blocks[i].start_time % HOUR_MS = 0
          /\ blocks[i].start_time <= first
          /\ first < blocks[i].start_time + HOUR_MS
          /\ blocks[i].end_time = blocks[i].start_time + 5 * HOUR_MS

\* entries at 09:00, 09:30 and 14:59: a window 09:00-14:00 with the first two, and a
\* window starting at 14:00 with the third
C13_Witness ==
    /\ spc = "select"
    /\ Len(all_entries) = 3
    /\ TimeOf(all_entries[1]) = 0
    /\ TimeOf(all_entries[2]) = 30 * MINUTE_MS
    /\ TimeOf(all_entries[3]) = 5 * HOUR_MS + 59 * MINUTE_MS
    /\ Len(blocks) = 2
    /\ blocks[1].start_time = 0 /\ blocks[1].end_time = 5 * HOUR_MS
    /\ assigned[1] = SubSeq(all_entries, 1, 2)
    /\ blocks[2].start_time = 5 * HOUR_MS
    /\ assigned[2] = SubSeq(all_entries, 3, 3)

\* C14: every entry assigned to a window, closed or still open, has an instant at or
\* after the window's start.
C14_EntriesNotBeforeStart ==
    /\ \A i \in 1..Len(blocks) : \A j \in 1..Len(assigned[i]) :
          TimeOf(assigned[i][j]) >= blocks[i].start_time
    /\ current_block_start # None =>
          \A j \in 1..Len(current_block_entries) :
              TimeOf(current_block_entries[j]) >= Unwrap(current_block_start)

Qualifies(i) == blocks[i].is_active /\ blocks[i].end_time > query_now

\* C15: find_active_block returns one window whose end is after the query instant: the
\* most recent produced window that is live and ends after now, marked active, or, when
\* there is none, the empty window from now to now + 5 h, inactive.
C15_ActiveBlockSelection ==
    spc = "done" =>
        /\ Cardinality(result) = 1
        /\ LET b == Unwrap(result)
               hits == {i \in 1..Len(blocks) : Qualifies(i)}
           IN /\ b.end_time > query_now
              /\ IF hits # {}
                 THEN LET m == CHOOSE i \in hits : \A j \in hits : j <= i IN
                      b = [blocks[m] EXCEPT !.is_active = TRUE]
                 ELSE b = [start_time |-> query_now, end_time |-> query_now + 5 * HOUR_MS,
                           cost_usd |-> 0, total_tokens |-> 0, is_active |-> FALSE]

C15_Witness ==
    /\ spc = "done"
    /\ Len(blocks) = 2
    /\ Qualifies(1) /\ Qualifies(2)
    /\ Unwrap(result).start_time = blocks[2].start_time

\* C17: an entry whose timestamp does not parse never makes find_active_block fail.
C17_BadTimestampIsSkipped ==
    scan_fault # "timestamp"

\* C19: a second run of the aggregator on the same entries and the same pricing table
\* produces windows with the same boundaries, costs and token totals as the first.
C19_SameBlocksOnRerun ==
    (run = 2 /\ spc \in {"select", "done"}) =>
        /\ Len(blocks) = Len(prev_blocks)
        /\ \A i \in 1..Len(blocks) :
              /\ blocks[i].start_time = prev_blocks[i].start_time
              /\ blocks[i].end_time = prev_blocks[i].end_time
              /\ blocks[i].cost_usd = prev_blocks[i].cost_usd
              /\ blocks[i].total_tokens = prev_blocks[i].total_tokens

\* ================================================================== Pricing
\* the cost the claim gives for n tokens at base price B and tiered price T
ClaimedCost(n, B, T) ==
    IF n <= 200000 THEN n * B ELSE 200000 * B + (n - 200000) * T

CountsOf(usage) ==
    <<usage.input_tokens, usage.output_tokens, usage.cache_creation_input_tokens,
      usage.cache_read_input_tokens>>

BasePricesOf(p) ==
    <<p.input_cost_per_token, p.output_cost_per_token, p.cache_creation_input_token_cost,
      p.cache_read_input_token_cost>>

TieredPricesOf(p) ==
    <<p.input_cost_per_token_above_200k_tokens, p.output_cost_per_token_above_200k_tokens,
      p.cache_creation_input_token_cost_above_200k_tokens,
      p.cache_read_input_token_cost_above_200k_tokens>>

\* C20: each category costs n*B up to 200,000 tokens and 200,000*B + (n - 200,000)*T
\* above, T being B when no tiered price is given; a zero count costs zero; the event
\* cost is the sum of the four category costs.  Both for a model priced by the table
\* and for the hardcoded fallback prices.
C20_TieredCost ==
    /\ cpc = "table" =>
          LET p == models[Unwrap(get_model_pricing(models, iter_order, Unwrap(cost_entry.model)))]
              n == CountsOf(cost_entry.usage)
              B == BasePricesOf(p)
              T == TieredPricesOf(p)
          IN \A k \in 1..4 :
                /\ n[k] = 0 => category_costs[k] = 0
                /\ B[k] # None =>
                      category_costs[k] =
                          ClaimedCost(n[k], Unwrap(B[k]),
                                      IF T[k] = None THEN Unwrap(B[k]) ELSE Unwrap(T[k]))
    /\ cpc = "fallback" =>
          LET f == FallbackPrices(UnwrapOr(cost_entry.model, SONNET_4))
              n == CountsOf(cost_entry.usage)
          IN \A k \in 1..4 : category_costs[k] = ClaimedCost(n[k], f[1][k], f[2][k])
    /\ cpc \in {"table", "fallback"} =>
          entry_cost = category_costs[1] + category_costs[2] + category_costs[3]
                           + category_costs[4]

\* 200,001 input tokens at B = 2 and T = 3 cost 200,000 * 2 + 3, next to 200,000 output
\* tokens at B = 2 costing 200,000 * 2
C20_Witness ==
    /\ cpc = "table"
    /\ cost_entry.usage.input_tokens = 200001
    /\ cost_entry.usage.output_tokens = 200000
    /\ models[<<"m">>].input_cost_per_token = Some(2)
    /\ models[<<"m">>].input_cost_per_token_above_200k_tokens = Some(3)
    /\ models[<<"m">>].output_cost_per_token = Some(2)
    /\ category_costs[1] = 400003
    /\ category_costs[2] = 400000

\* ============================================================ Pricing (cont.)
\* C21: the schedule that prices an entry is, in this order: the table key equal to the
\* model name; the name prefixed by "anthropic/", then "claude-", then "openai/"; a
\* table key equal to the name when case is ignored; otherwise the hardcoded table,
\* with the Sonnet 4 schedule when the model is absent or not one it knows.  The
\* hardcoded table is used only when none of the first three steps hits.
C21_ResolutionOrder ==
    LET m == cost_entry.model
        K == DOMAIN models
        u == cost_entry.usage
        name == Unwrap(m)
        CaseKeys == {k \in K : to_lowercase(k) = to_lowercase(name)}
        ByKey(k) == /\ cpc = "table"
                    /\ pricing_key = Some(k)
                    /\ category_costs = calculate_cost(models[k], u)
        Baseline == [cost_entry EXCEPT !.model = Some(SONNET_4)]
    IN cpc \in {"table", "fallback"} =>
         IF m = None
         THEN cpc = "fallback" /\ category_costs = estimate_cost_fallback(Baseline)
         ELSE IF name \in K THEN ByKey(name)
         ELSE IF (<<"anthropic/">> \o name) \in K THEN ByKey(<<"anthropic/">> \o name)
         ELSE IF (<<"claude-">> \o name) \in K THEN ByKey(<<"claude-">> \o name)
         ELSE IF (<<"openai/">> \o name) \in K THEN ByKey(<<"openai/">> \o name)
         ELSE IF CaseKeys # {} THEN \E k \in CaseKeys : ByKey(k)
         ELSE /\ cpc = "fallback"
              /\ category_costs =
                    IF name \in {SONNET_4, SONNET_4_5, OPUS_4_1}
                    THEN estimate_cost_fallback(cost_entry)
                    ELSE estimate_cost_fallback(Baseline)

\* the name has no exact key and no "anthropic/" key, but a "claude-" key, an "openai/"
\* key and a key equal ignoring case: the "claude-" key prices the entry
C21_Witness ==
    /\ cpc = "table"
    /\ cost_entry.model = Some(<<"m">>)
    /\ DOMAIN models = {<<"claude-", "m">>, <<"openai/", "m">>, <<"M">>}
    /\ pricing_key = Some(<<"claude-", "m">>)
    /\ category_costs[1] = 3

\* ====================================================== Aggregator (cont.)
RECURSIVE SumSeq(_)
SumSeq(xs) == IF xs = <<>> THEN 0 ELSE xs[1] + SumSeq(Tail(xs))

\* C22: the token total of a window is the sum of input + output tokens of its events
\* (no cache tokens); its cost is the sum of the resolver's cost of each event, which
\* is the sum of the costs of all four token categories.
C22_TokensAndCostOfWindow ==
    \A i \in DOMAIN blocks :
        LET es == assigned[i] IN
        /\ blocks[i].total_tokens =
              SumSeq([j \in DOMAIN es |-> es[j].usage.input_tokens + es[j].usage.output_tokens])
        /\ blocks[i].cost_usd =
              SumSeq([j \in DOMAIN es |->
                        LET c == EntryCategoryCosts(models, iter_order, es[j])
                        IN c[1] + c[2] + c[3] + c[4]])

\* a window of two events priced by the hardcoded Sonnet 4 schedule: 2 * (1 + 2) tokens,
\* cost 2 * (1 * 60 + 2 * 300 + 4 * 75 + 8 * 6)
C22_Witness ==
    \E i \in DOMAIN blocks :
        /\ Len(assigned[i]) = 2
        /\ \A j \in 1..2 : assigned[i][j].model = None
                            /\ assigned[i][j].usage.cache_creation_input_tokens > 0
                            /\ assigned[i][j].usage.cache_read_input_tokens > 0
        /\ blocks[i].total_tokens = 6
        /\ blocks[i].cost_usd = 2016

\* ================================================== Pricing table loader (cont.)
\* C23: over any sequence or interleaving of load_pricing calls the remote source
\* serves the pricing table at most once per 24 hours (as long as every write of the
\* cache file succeeds): any two served fetches are at least 24 hours apart.
C23_FetchOncePerTTL ==
    ~write_fault =>
        \A i, j \in DOMAIN fetch_times :
            i < j => fetch_times[j] - fetch_times[i] >= MAX_AGE_SECONDS

\* C24: a GET that ends with a network error or a non-success status is followed by a
\* read of the cache file: the load returns the models of the PricingCache the file
\* holds, whatever its age, and fails only when the file is absent or does not parse;
\* neither step changes the file.
C24_FetchFailureUsesStaleCache ==
    [][\A p \in Procs :
          /\ (lproc[p].pc = "get" /\ lproc'[p].got \in {"status", "network"}) =>
                (lproc'[p].pc = "stale" /\ lproc'[p].res = 0 /\ pricing_json' = pricing_json)
          /\ (lproc[p].pc = "stale" /\ lproc'[p].pc # "stale") =>
                LET c == read_pricing_cache(pricing_json) IN
                /\ pricing_json' = pricing_json
                /\ lproc'[p].pc = "ret"
                /\ lproc'[p].res = IF c = None THEN -1 ELSE Unwrap(c).models
      ]_vars

\* a load whose GET failed returned table 1 from a cache file written 24 hours ago or
\* earlier
C24_Witness ==
    \E p \in Procs :
        /\ lproc[p].pc = "ret"
        /\ lproc[p].got \in {"status", "network"}
        /\ lproc[p].via = "stale"
        /\ lproc[p].res = 1
        /\ read_pricing_cache(pricing_json) # None
        /\ unix_now - Unwrap(read_pricing_cache(pricing_json)).timestamp >= MAX_AGE_SECONDS

\* C25: a GET that returns a success status with a body that is no pricing table does
\* not make the load fail while the cache file holds a parseable PricingCache: the
\* load goes on to the cache file and returns its models.
C25_MalformedResponseFallsBack ==
    [][\A p \in Procs :
          (/\ lproc[p].pc = "get"
           /\ lproc'[p].got = "malformed"
           /\ read_pricing_cache(pricing_json) # None)
              => \/ lproc'[p].pc = "stale"
                 \/ lproc'[p].res = Unwrap(read_pricing_cache(pricing_json)).models
      ]_vars

\* C26: generate_statusline returns a statusline whether or not the pricing table could
\* be loaded.
C26_RenderSurvivesPricingFailure ==
    \A p \in Procs : lproc[p].pc = "done" => lproc[p].out = "statusline"

\* ===================================================== Remote Quota Cache (cont.)
\* the position of a step on the two paths of fetch_usage_with_lock
Rank(pc) ==
    CASE pc \in {"idle", "done"} -> 0
      [] pc = "open" -> 1
      [] pc = "try" -> 2
      [] pc \in {"check", "swait"} -> 3
      [] pc \in {"xread", "sread"} -> 4
      [] pc = "fetch" -> 5
      [] pc = "net" -> 6
      [] pc = "wopen" -> 7
      [] pc = "wwrite" -> 8
      [] pc = "rename" -> 9
      [] pc = "unlock" -> 10
      [] pc = "ret" -> 11

ExclusivePath == {"check", "xread", "fetch", "net", "wopen", "wwrite", "rename"}
SharedPath == {"swait", "sread"}

Busy(p) == proc[p].pc \notin {"idle", "done"}

\* one step of the invocation of p keeps it on one path, forward
OnePathStep(p) ==
    /\ proc'[p].net <= 1
    /\ proc'[p].pc \in ExclusivePath => ~proc'[p].contended
    /\ proc'[p].pc \in SharedPath => (proc'[p].contended /\ proc'[p].net = 0)
    /\ (proc'[p] # proc[p] /\ proc[p].pc # "done") =>
          \/ Rank(proc'[p].pc) > Rank(proc[p].pc)
          \/ /\ proc[p].pc = "wwrite" /\ proc'[p].pc = "wwrite"
             /\ proc'[p].woff > proc[p].woff
          \/ proc[p].pc = "ret" /\ proc'[p].pc = "done"
          \/ proc'[p].pc = proc[p].pc /\ proc[p].pc = "swait"
    /\ (proc[p].pc = "ret" /\ proc'[p].pc = "done") => proc'[p].out >= 0
    /\ (proc[p].pc = "sread" /\ proc'[p].pc # "sread") => proc'[p].pc = "unlock"
    /\ (proc[p].pc = "check" /\ proc'[p].pc # "check") =>
          proc'[p].pc \in {"xread", "fetch", "unlock"}

\* C27: every invocation follows one of the two paths (exclusive lock, freshness check,
\* then read or fetch-and-write; or contention, shared wait, read), forward only, with
\* at most one network call, and ends with a return value (snapshot or none); under
\* fair scheduling every invocation that has started returns.
C27_TerminatesOnOnePath ==
    /\ [][\A p \in Procs : OnePathStep(p)]_vars
    /\ \A p \in Procs : Busy(p) ~> (proc[p].pc = "done")

\* one invocation returned what it fetched with its one network call, the other one
\* returned a snapshot it read after waiting for the shared lock
C27_Witness ==
    \E p, q \in Procs :
        /\ proc[p].pc = "ret" /\ ~proc[p].contended /\ proc[p].net = 1
        /\ proc[p].res > 0 /\ proc[p].res = proc[p].wrote
        /\ proc[q].pc = "ret" /\ proc[q].contended /\ proc[q].net = 0 /\ proc[q].res > 0

\* C28: an invocation that waited for the shared lock behind an exclusive holder reads
\* only after that holder released (a shared and an exclusive lock are never held on
\* one open cache file at once), and, the holder's fetch and write having succeeded,
\* what it then reads is non-empty and parses as one complete snapshot.
C28_SharedReaderSeesSnapshot ==
    /\ \A p, q \in Procs :
          (p # q /\ proc[p].fd # 0 /\ proc[p].fd = proc[q].fd) =>
              ~(proc[p].held = "sh" /\ proc[q].held = "ex")
    /\ \A p \in Procs :
          (proc[p].pc = "sread" /\ proc[p].expect # 0) =>
              (inoData[proc[p].fd] # <<>> /\ Parse(inoData[proc[p].fd]) # 0)

\* ============================================================ locks of both caches
\* C29: a process holds a lock on a cache file only while the operation that took it
\* (fetch_usage_with_lock, try_get_cached, update_cache) is between the acquisition
\* and its return; once the operation has returned, with a value or with any error,
\* the process holds no lock.
C29_NoLockAfterReturn ==
    /\ \A p \in Procs :
          proc[p].held # "none" =>
              proc[p].pc \in {"check", "xread", "fetch", "net", "wopen", "wwrite", "rename",
                              "sread", "unlock"}
    /\ \A p \in Procs :
          rproc[p].held # "none" =>
              \/ rproc[p].held = "sh" /\ rproc[p].pc \in {"gread", "gcheck"}
              \/ rproc[p].held = "ex" /\ rproc[p].pc \in {"ustat", "uwrite", "uunlock"}

\* a quota fetch whose network call failed under the exclusive lock has returned
C29_Witness ==
    \E p \in Procs :
        proc[p].pc = "ret" /\ proc[p].net = 1 /\ proc[p].res = -2 /\ proc[p].held = "none"

\* ===================================================== Render-Result Cache (cont.)
\* C30: a text that try_get_cached returns was generated from the transcript as it is
\* at the modification time the record stores, which is the transcript's current one:
\* a hit never serves a text computed from an older transcript.
C30_HitServesCurrentTranscript ==
    [][\A p \in Procs :
          (~rproc[p].hit /\ rproc'[p].hit) =>
              rproc'[p].printed = transcript[rproc[p].key].ver
      ]_vars

\* C31: under every interleaving of update_cache and try_get_cached calls on one session
\* key, a text returned by try_get_cached is the complete text some earlier update_cache
\* call for that key was given.
C31_HitReturnsAPutText ==
    \A p \in Procs : rproc[p].hit => rproc[p].printed \in puts[rproc[p].key]

\* ========================================================== Usage-Log Scan (cont.)
\* what the scan collects when no file is passed over (no modification time is negative)
EveryFileEntries ==
    SortByTimestamp(read_session_files(log_files, 0,
                        [processed_hashes |-> {}, all_entries |-> <<>>]).all_entries)

RECURSIVE BlocksFrom(_, _, _, _, _)
\* the blocks group_into_blocks returns at instant t for the entries es[i..], when the
\* open block starts at start and holds cur (None, <<>>: no block is open)
BlocksFrom(es, i, start, cur, t) ==
    IF i > Len(es)
    THEN IF start # None /\ cur # <<>>
         THEN <<create_block_from_entries(Unwrap(start), cur, t, models, iter_order)>>
         ELSE <<>>
    ELSE IF start = None
         THEN BlocksFrom(es, i + 1, Some(floor_to_hour(TimeOf(es[i]))), <<es[i]>>, t)
         ELSE IF should_close_block(TimeOf(es[i]) - Unwrap(start),
                                    TimeOf(es[i]) - TimeOf(cur[Len(cur)]))
              THEN <<create_block_from_entries(Unwrap(start), cur, t, models, iter_order)>>
                       \o BlocksFrom(es, i + 1, Some(floor_to_hour(TimeOf(es[i]))), <<es[i]>>, t)
              ELSE BlocksFrom(es, i + 1, start, Append(cur, es[i]), t)

\* the block find_active_block reports for the blocks bs at instant t
ReportedBlock(bs, t) ==
    LET i == LastActive(bs, Len(bs), t) IN
    IF i # 0
    THEN Block(bs[i].start_time, bs[i].end_time, bs[i].cost_usd, bs[i].total_tokens, TRUE)
    ELSE Block(t, t + BLOCK_DURATION_HOURS * HOUR_MS, 0, 0, FALSE)

\* no file was modified before the instant of its latest event
MtimeCoversEvents ==
    \A f \in 1..Len(log_files) : \A j \in 1..Len(log_files[f].lines) :
        TimeOf(log_files[f].lines[j]) <= log_files[f].mtime * 1000

\* C32: passing over the files modified more than 12 hours ago does not change what
\* find_active_block reports: start, end, cost, tokens and liveness are those of a scan
\* of every file, when no file's modification time is earlier than its latest event.
C32_LookbackKeepsResult ==
    (spc = "done" /\ log_files # <<>> /\ MtimeCoversEvents) =>
        result = Some(ReportedBlock(
                        BlocksFrom(EveryFileEntries, 1, None, <<>>,
                                   IF all_entries = <<>> THEN query_now ELSE group_now),
                        query_now))

\* ========================================== Billing-Window Aggregator (cont.)
\* every timestamp parses and no entry is earlier than the one before it
Chronological(entries) ==
    /\ \A i \in 1..Len(entries) : parse_from_rfc3339(entries[i].timestamp) # None
    /\ \A i \in 1..(Len(entries) - 1) : TimeOf(entries[i]) <= TimeOf(entries[i + 1])

RECURSIVE Flatten(_)
Flatten(ss) == IF ss = <<>> THEN <<>> ELSE Head(ss) \o Flatten(Tail(ss))

\* group_into_blocks has returned its list
Grouped == spc \in {"select", "done"} /\ scan_fault = ""

\* C33: the windows group_into_blocks returns for chronologically ordered events are
\* ordered and do not overlap: each starts strictly after the previous one's start and
\* not before the previous one's end; every input event is in exactly one window, and
\* its instant t satisfies start <= t <= start + 5 h for that window.
C33_OrderedDisjointWindows ==
    (Grouped /\ Chronological(all_entries)) =>
        /\ Len(assigned) = Len(blocks)
        /\ \A i \in 2..Len(blocks) :
              /\ blocks[i].start_time > blocks[i - 1].start_time
              /\ blocks[i].start_time >= blocks[i - 1].end_time
        /\ Flatten(assigned) = all_entries
        /\ \A i \in 1..Len(blocks) : \A j \in 1..Len(assigned[i]) :
              /\ blocks[i].start_time <= TimeOf(assigned[i][j])
              /\ TimeOf(assigned[i][j]) <= blocks[i].start_time + 5 * HOUR_MS

\* entries at 09:30, 14:00 and 14:30: the second lies on the end of the first window,
\* the third opens the window that starts where the first one ends
C33_Witness ==
    /\ Grouped /\ Chronological(all_entries)
    /\ Len(blocks) = 2
    /\ Len(assigned[1]) = 2
    /\ TimeOf(assigned[1][1]) > blocks[1].start_time
    /\ TimeOf(assigned[1][2]) = blocks[1].end_time
    /\ blocks[2].start_time = blocks[1].end_time

\* the instant of the last entry of produced window i
LastEventOf(i) == TimeOf(assigned[i][Len(assigned[i])])

\* C34: when no event is later than now, at most one window of the list has its
\* liveness flag set and it is the last one; a window's flag is set exactly when
\* now - (its last event) < 5 h and now < its end.
C34_OnlyLastWindowLive ==
    (Grouped /\ \A i \in 1..Len(all_entries) : TimeOf(all_entries[i]) <= group_now) =>
        /\ \A i \in 1..Len(blocks) :
              /\ blocks[i].is_active => i = Len(blocks)
              /\ blocks[i].is_active <=>
                    (/\ group_now - LastEventOf(i) < 5 * HOUR_MS
                     /\ group_now < blocks[i].end_time)

\* entries at 09:00 and 14:30, now = 15:00: two windows, only the second is live
C34_Witness ==
    /\ Grouped
    /\ \A i \in 1..Len(all_entries) : TimeOf(all_entries[i]) <= group_now
    /\ Len(blocks) = 2
    /\ group_now - LastEventOf(1) < 5 * HOUR_MS
    /\ ~blocks[1].is_active
    /\ blocks[2].is_active

\* C35: for chronologically ordered input the current window is closed at an entry
\* exactly when the entry is more than 5 h after the window's start; whenever the gap
\* from the previous entry exceeds 5 h, so does the gap from the start.
C35_StartGapDecides ==
    [][(TakesEntryIntoOpenBlock /\ Chronological(all_entries)) =>
         LET start == Unwrap(current_block_start)
             last == TimeOf(current_block_entries[Len(current_block_entries)])
             t == TimeOf(all_entries[gi + 1])
         IN /\ OpensNewBlock <=> t - start > 5 * HOUR_MS
            /\ AppendsEntry <=> ~(t - start > 5 * HOUR_MS)
            /\ t - last > 5 * HOUR_MS => t - start > 5 * HOUR_MS
      ]_vars

\* entries at 09:00 and 14:00:01: the gap from the previous entry exceeds 5 h
C35_Witness ==
    /\ Grouped /\ Chronological(all_entries)
    /\ Len(assigned) = 2
    /\ TimeOf(assigned[2][1]) - LastEventOf(1) > 5 * HOUR_MS

\* ========================================================== Usage-Log Scan (cont.)
\* C36: two parsed events whose (message id, request id) pairs differ are never treated
\* as duplicates of each other, also when an id contains ':': an event is dropped as a
\* duplicate only when an earlier event has the same pair.
C36_DifferentPairsNeverDuplicates ==
    \A i \in 1..Len(scanned) :
        ~scanned[i].kept =>
            \E j \in 1..(i - 1) : SamePair(scanned[j].entry, scanned[i].entry)

\* ============================================================ Pricing (cont.)
\* C37: the pricing entry get_model_pricing chooses depends on the model identifier and
\* the table contents alone: a second run over the same table, with a PricingFetcher
\* of its own, chooses for every entry's model the key the first run chose, also when
\* several keys equal the identifier ignoring case.
C37_SameEntryInEveryRun ==
    [][run_again =>
         \A i \in 1..Len(all_entries) :
             all_entries[i].model # None =>
                 get_model_pricing(models, iter_order', Unwrap(all_entries[i].model))
                     = get_model_pricing(models, iter_order, Unwrap(all_entries[i].model))
      ]_vars

\* ===================================================== Remote Quota Cache (cont.)
\* fetch_api_response() returned Err to the invocation of p in this step
FetchFails(p) == proc[p].pc \in {"fetch", "net"} /\ proc'[p].pc = "unlock"

\* a step of p on its way out after its fetch failed (nothing was written by it)
LeavesAfterFailure(p) ==
    /\ proc[p].pc \in {"unlock", "ret"}
    /\ proc[p].res = -2 /\ proc[p].wrote = 0 /\ proc[p].why # ""
    /\ proc'[p] # proc[p]

\* C38: an invocation whose network fetch fails leaves the content and the modification
\* time of an existing cache file as they are, renames nothing into place and makes no
\* further network call; so the snapshot written before stays on disk, and an
\* invocation that finds the cache stale under its exclusive lock attempts the fetch.
C38_FailedFetchChangesNothing ==
    [][\A p \in Procs :
          /\ (FetchFails(p) \/ LeavesAfterFailure(p)) =>
                /\ pathIno' = pathIno /\ tmpIno' = tmpIno /\ renames' = renames
                /\ pathIno # 0 =>
                      /\ inoData'[pathIno] = inoData[pathIno]
                      /\ inoMtime'[pathIno] = inoMtime[pathIno]
                /\ proc'[p].fd # 0 =>
                      /\ inoData'[proc[p].fd] = inoData[proc[p].fd]
                      /\ inoMtime'[proc[p].fd] = inoMtime[proc[p].fd]
                /\ proc'[p].net = proc[p].net \/ proc'[p].pc = "done"
                /\ proc'[p].res = -2
          /\ (/\ proc[p].pc = "check" /\ proc'[p].pc # "check"
              /\ ~IsFresh(inoMtime[proc[p].fd], now)) =>
                \/ proc'[p].pc = "fetch"
                \/ proc'[p].pc = "unlock" /\ proc'[p].res = -2
      ]_vars

\* the fetch of p failed at the network while no response was ever served; the
\* snapshot the file held at start is still on disk and still stale
C38_Witness ==
    \E p \in Procs :
        /\ proc[p].pc = "ret" /\ proc[p].res = -2 /\ proc[p].net = 1
        /\ served = 0
        /\ pathIno # 0 /\ proc[p].fd = pathIno
        /\ inoData[pathIno] = FullContent(1)
        /\ ~IsFresh(inoMtime[pathIno], now)

\* ===================================================== Render-Result Cache (cont.)
\* update_cache has been called by the invocation of p and has not returned
InUpdateCache(p) == rproc[p].pc \in {"uopen", "ulock", "ustat", "uwrite", "uunlock"}

\* C39: every update_cache call gets past lock_exclusive and returns, given that every
\* lock holder releases, also while other processes keep taking and releasing shared
\* locks on the same session file through try_get_cached.
C39_UpdateCacheCompletes ==
    \A p \in Procs : InUpdateCache(p) ~> (rproc[p].pc \in {"done", "fail"})

====
